---- MODULE Spec2Model ----
(***************************************************************************)
(* Model of the tifft indicator calculators (src/tifft/macd.py,            *)
(* src/tifft/bollingerbands.py, src/tifft/rsi.py).                          *)
(*                                                                         *)
(* Floating point numbers are modelled exactly: a number is NaN, +inf,     *)
(* -inf or a value a + b*sqrt(r) + e*Tick with a, b, r rational and Tick   *)
(* = 1e-11, a quantity far below every difference the bounded inputs can   *)
(* produce.  Rounding error of the binary format is not modelled.          *)
(***************************************************************************)
EXTENDS Integers, Sequences, FiniteSets, TLC

VARIABLES obj, call, ret, io

vars == <<obj, call, ret, io>>

---------------------------------------------------------------------------
(* Bounds of the model *)

MaxLen == 3
MaxValue == 1
MaxWindow == 3
MaxSpan == 3
MaxMultiplier == 2
MaxMinPeriods == 2

---------------------------------------------------------------------------
(* Exact rational arithmetic: <<n, d>> with d > 0 in lowest terms *)

Abs(n) == IF n < 0 THEN -n ELSE n

Sgn(n) == IF n < 0 THEN -1 ELSE IF n > 0 THEN 1 ELSE 0

Max(m, n) == IF m > n THEN m ELSE n

RECURSIVE GCD(_, _)
GCD(m, n) == IF n = 0 THEN m ELSE GCD(n, m % n)

Reduce(n, d, g) == <<n \div g, d \div g>>

Norm(n, d) == Reduce(IF d < 0 THEN -n ELSE n, Abs(d), GCD(Abs(n), Abs(d)))

RZero == <<0, 1>>

RInt(n) == <<n, 1>>

RNeg(x) == <<-x[1], x[2]>>

Lcm(m, n) == (m \div GCD(m, n)) * n

RAddOver(x, y, l) == Norm(x[1] * (l \div x[2]) + y[1] * (l \div y[2]), l)

RAdd(x, y) == RAddOver(x, y, Lcm(x[2], y[2]))

RSub(x, y) == RAdd(x, RNeg(y))

RMulBy(x, y, g1, g2) ==
    Norm((x[1] \div g1) * (y[1] \div g2), (x[2] \div g2) * (y[2] \div g1))

RMul(x, y) == RMulBy(x, y, GCD(Abs(x[1]), y[2]), GCD(Abs(y[1]), x[2]))

RInv(x) == Norm(x[2], x[1])

RDiv(x, y) == RMul(x, RInv(y))

RSgn(x) == Sgn(x[1])

\* the integer part of the square root of n >= 0
ISqrt(n) == CHOOSE k \in 0..n : k * k <= n /\ (k + 1) * (k + 1) > n

IsSquareOf(n, k) == k * k = n

IsSquare(n) == IsSquareOf(n, ISqrt(n))

RIsSquare(x) == x[1] >= 0 /\ IsSquare(x[1]) /\ IsSquare(x[2])

RSqrt(x) == <<ISqrt(x[1]), ISqrt(x[2])>>

---------------------------------------------------------------------------
(* Floating point values *)

NaN == [k |-> "nan", a |-> RZero, b |-> RZero, r |-> RZero, e |-> 0]

PosInf == [k |-> "inf", a |-> RZero, b |-> RZero, r |-> RZero, e |-> 0]

NegInf == [k |-> "ninf", a |-> RZero, b |-> RZero, r |-> RZero, e |-> 0]

Rational(a, e) == [k |-> "num", a |-> a, b |-> RZero, r |-> RZero, e |-> e]

\* a + b*sqrt(r) + e*Tick in canonical form
Mk(a, b, r, e) ==
    IF b = RZero \/ r = RZero THEN Rational(a, e)
    ELSE IF RIsSquare(r) THEN Rational(RAdd(a, RMul(b, RSqrt(r))), e)
    ELSE [k |-> "num", a |-> a, b |-> b, r |-> r, e |-> e]

Q(n, d) == Rational(Norm(n, d), 0)

I(n) == Rational(RInt(n), 0)

IsNaN(x) == x.k = "nan"

\* sign of a + b*sqrt(r) from the signs sa of a, sb of b*sqrt(r) and c of
\* a^2 - b^2*r
SurdSign(sa, sb, c) ==
    IF sb = 0 THEN sa
    ELSE IF sa = 0 THEN sb
    ELSE IF sa = sb THEN sa
    ELSE IF c > 0 THEN sa
    ELSE IF c < 0 THEN sb
    ELSE 0

CoarseSign(x) ==
    SurdSign(RSgn(x.a),
             IF x.r = RZero THEN 0 ELSE RSgn(x.b),
             RSgn(RSub(RMul(x.a, x.a), RMul(RMul(x.b, x.b), x.r))))

OrElse(s, t) == IF s # 0 THEN s ELSE t

\* sign of a number that is not NaN; the Tick part decides last
Sign(x) ==
    IF x.k = "inf" THEN 1
    ELSE IF x.k = "ninf" THEN -1
    ELSE OrElse(CoarseSign(x), Sgn(x.e))

InfOfSign(s) == IF s > 0 THEN PosInf ELSE IF s < 0 THEN NegInf ELSE NaN

FNeg(x) ==
    IF x.k = "nan" THEN NaN
    ELSE IF x.k = "inf" THEN NegInf
    ELSE IF x.k = "ninf" THEN PosInf
    ELSE Mk(RNeg(x.a), RNeg(x.b), x.r, -x.e)

FAdd(x, y) ==
    IF x.k = "nan" \/ y.k = "nan" THEN NaN
    ELSE IF x.k = "num" /\ y.k = "num"
    THEN Mk(RAdd(x.a, y.a), RAdd(x.b, y.b),
            IF x.r = RZero THEN y.r ELSE x.r, x.e + y.e)
    ELSE IF x.k = "num" THEN y
    ELSE IF y.k = "num" THEN x
    ELSE IF x.k = y.k THEN x
    ELSE NaN

FSub(x, y) == FAdd(x, FNeg(y))

\* product; at least one factor of two finite ones is rational
FMul(x, y) ==
    IF x.k = "nan" \/ y.k = "nan" THEN NaN
    ELSE IF x.k = "num" /\ y.k = "num"
    THEN IF y.b = RZero
         THEN Mk(RMul(x.a, y.a), RMul(x.b, y.a), x.r, 0)
         ELSE Mk(RMul(x.a, y.a), RMul(x.a, y.b), y.r, 0)
    ELSE InfOfSign(Sign(x) * Sign(y))

\* quotient of finite numbers with a nonzero divisor that is rational or a
\* pure multiple of sqrt(r)
FQuot(x, y) ==
    IF y.b = RZero
    THEN Mk(RDiv(x.a, y.a), RDiv(x.b, y.a), x.r, 0)
    ELSE Mk(RDiv(x.b, y.b), RDiv(x.a, RMul(y.b, y.r)), y.r, 0)

FDivBy(x, y, sy) ==
    IF x.k = "num" /\ y.k = "num"
    THEN IF sy = 0 THEN InfOfSign(Sign(x)) ELSE FQuot(x, y)
    ELSE IF x.k = "num" THEN I(0)
    ELSE IF y.k = "num" THEN IF sy >= 0 THEN x ELSE FNeg(x)
    ELSE NaN

FDiv(x, y) == IF x.k = "nan" \/ y.k = "nan" THEN NaN ELSE FDivBy(x, y, Sign(y))

FGt(x, y) == x.k # "nan" /\ y.k # "nan" /\ x # y /\ Sign(FSub(x, y)) > 0

FLt(x, y) == FGt(y, x)

FEq(x, y) ==
    /\ x.k # "nan"
    /\ y.k # "nan"
    /\ (x = y \/ (x.k = "num" /\ y.k = "num" /\ Sign(FSub(x, y)) = 0))

FAbs(x) == IF Sign(x) < 0 THEN FNeg(x) ELSE x

---------------------------------------------------------------------------
(* Python and numpy scalar functions used by the calculators *)

RECURSIVE FloorFrom(_, _)
FloorFrom(x, k) ==
    IF Sign(FSub(x, I(k))) < 0 THEN FloorFrom(x, k - 1)
    ELSE IF Sign(FSub(x, I(k + 1))) >= 0 THEN FloorFrom(x, k + 1)
    ELSE k

\* np.floor of a finite number
Floor(x) == FloorFrom(x, x.a[1] \div x.a[2])

\* np.ceil of a finite number
Ceil(x) == -Floor(FNeg(x))

\* the integer nearest to a number with floor f, h the sign of x - f - 1/2;
\* a tie goes to the even one
RoundPick(f, h) ==
    IF h < 0 THEN f
    ELSE IF h > 0 THEN f + 1
    ELSE IF f % 2 = 0 THEN f ELSE f + 1

RoundAt(x, f) == RoundPick(f, Sign(FSub(FSub(x, I(f)), Q(1, 2))))

\* round() of a finite number
Round(x) == RoundAt(x, Floor(x))

---------------------------------------------------------------------------
(* pandas: a column is a sequence of numbers, a frame is the ordered list  *)
(* of its column names with the data of every column                       *)

Range(s) == {s[i] : i \in 1..Len(s)}

\* pd.DataFrame({"value": values}) / Series.to_frame(name="value")
NewFrame(values) == [cols |-> <<"value">>, data |-> ("value" :> values)]

\* a column holds its computed elements (an array, not a deferred formula)
Stored(column) == column \o << >>

\* DataFrame.assign(name=column)
Assign(df, name, column) ==
    [cols |-> IF name \in Range(df.cols) THEN df.cols ELSE Append(df.cols, name),
     data |-> (name :> Stored(column)) @@ df.data]

Kept(cols, names) == SelectSeq(cols, LAMBDA c : c \notin names)

\* DataFrame.drop(columns=names)
Drop(df, names) ==
    [cols |-> Kept(df.cols, names),
     data |-> [c \in (DOMAIN df.data) \ names |-> df.data[c]]]

\* FfillLast with nothing carried forward
FfillNothing(head, x) == Append(head, x)

FfillLast(head, x) ==
    IF IsNaN(x) /\ Len(head) > 0 THEN Append(head, head[Len(head)])
    ELSE Append(head, x)

\* Series.ffill() / Series.fillna(method="ffill")
RECURSIVE Ffill(_)
Ffill(s) ==
    IF Len(s) = 0 THEN s
    ELSE FfillLast(Ffill(SubSeq(s, 1, Len(s) - 1)), s[Len(s)])

\* Diff with the difference taken backwards
DiffReversed(s) == [i \in 1..Len(s) |-> IF i = 1 THEN NaN ELSE FSub(s[i - 1], s[i])]

\* Diff with a first difference of 0
DiffFromZero(s) == [i \in 1..Len(s) |-> IF i = 1 THEN I(0) ELSE FSub(s[i], s[i - 1])]

\* Series.diff()
Diff(s) == [i \in 1..Len(s) |-> IF i = 1 THEN NaN ELSE FSub(s[i], s[i - 1])]

\* Mask that replaces nothing
MaskNothing(s, cond, other) == [i \in 1..Len(s) |-> s[i]]

\* Series.mask(cond, other)
Mask(s, cond, other) == [i \in 1..Len(s) |-> IF cond[i] THEN other ELSE s[i]]

RECURSIVE SumOver(_, _)
SumPick(f, S, i) == RAdd(f[i], SumOver(f, S \ {i}))

SumOver(f, S) == IF S = {} THEN RZero ELSE SumPick(f, S, CHOOSE j \in S : TRUE)

\* the positions of the window ending at i
Window(i, window) == Max(1, i - window + 1)..i

\* the observations (non-missing entries) of the window ending at i
Obs(s, i, window) == {j \in Window(i, window) : ~IsNaN(s[j])}

\* RollingMinPeriods with a default of one observation
RollingMinPeriodsOfOne(kw) ==
    IF "min_periods" \in DOMAIN kw THEN kw["min_periods"] ELSE 1

\* min_periods of a rolling window: the window size unless given
RollingMinPeriods(kw) ==
    IF "min_periods" \in DOMAIN kw THEN kw["min_periods"] ELSE kw["window"]

\* rolling() rejects a min_periods above the window size
RollingRaises(kw) ==
    "min_periods" \in DOMAIN kw /\ kw["min_periods"] > kw["window"]

MeanOf(s, obs, minp) ==
    IF Cardinality(obs) >= minp /\ Cardinality(obs) > 0
    THEN Rational(RDiv(SumOver([j \in obs |-> s[j].a], obs),
                       RInt(Cardinality(obs))), 0)
    ELSE NaN

\* Series.rolling(**kw).mean()
RollingMean(s, kw) == [i \in 1..Len(s) |-> MeanOf(s, Obs(s, i, kw["window"]), RollingMinPeriods(kw))]

\* VarOf without centring on the mean
VarOfUncentred(n, sum, sq) == RDiv(sq, RInt(n - 1))

\* sample variance of n observations with the given sum and sum of squares
VarOf(n, sum, sq) ==
    RDiv(RSub(RMul(RInt(n), sq), RMul(sum, sum)), RInt(n * (n - 1)))

\* StdOf with the population deviation (divisor n) in place of the sample one
StdOfPopulation(s, obs, minp) ==
    IF Cardinality(obs) >= minp /\ Cardinality(obs) > 0
    THEN Mk(RZero, RInt(1),
            RDiv(RSub(RMul(RInt(Cardinality(obs)),
                           SumOver([j \in obs |-> RMul(s[j].a, s[j].a)], obs)),
                      RMul(SumOver([j \in obs |-> s[j].a], obs),
                           SumOver([j \in obs |-> s[j].a], obs))),
                 RInt(Cardinality(obs) * Cardinality(obs))), 0)
    ELSE NaN

StdOf(s, obs, minp) ==
    IF Cardinality(obs) >= minp /\ Cardinality(obs) > 1
    THEN Mk(RZero, RInt(1),
            VarOf(Cardinality(obs),
                  SumOver([j \in obs |-> s[j].a], obs),
                  SumOver([j \in obs |-> RMul(s[j].a, s[j].a)], obs)), 0)
    ELSE NaN

\* RollingStd with ddof = 0
RollingStdPopulation(s, kw) ==
    [i \in 1..Len(s) |-> StdOfPopulation(s, Obs(s, i, kw["window"]), RollingMinPeriods(kw))]

\* Series.rolling(**kw).std(): sample standard deviation (ddof = 1)
RollingStd(s, kw) == [i \in 1..Len(s) |-> StdOf(s, Obs(s, i, kw["window"]), RollingMinPeriods(kw))]

\* the state of the exponentially weighted mean after the first entry
EwmFirst(cur) ==
    [weighted |-> cur, oldWt |-> RInt(1), nobs |-> IF IsNaN(cur) THEN 0 ELSE 1]

\* ... after an observation cur that follows an observation
EwmObserve(p, cur, wt, newWt, adjust) ==
    [weighted |-> IF p.weighted # cur
                  THEN Rational(RDiv(RAdd(RMul(wt, p.weighted.a), RMul(newWt, cur.a)),
                                     RAdd(wt, newWt)), 0)
                  ELSE p.weighted,
     oldWt |-> IF adjust THEN RAdd(wt, newWt) ELSE RInt(1),
     nobs |-> p.nobs + 1]

\* ... after the entry cur that follows the state p
EwmUpdate(p, cur, alpha, adjust) ==
    IF IsNaN(p.weighted)
    THEN [weighted |-> cur, oldWt |-> p.oldWt,
          nobs |-> p.nobs + (IF IsNaN(cur) THEN 0 ELSE 1)]
    ELSE IF IsNaN(cur)
    THEN [weighted |-> p.weighted,
          oldWt |-> RMul(p.oldWt, RSub(RInt(1), alpha)),
          nobs |-> p.nobs]
    ELSE EwmObserve(p, cur, RMul(p.oldWt, RSub(RInt(1), alpha)),
                    IF adjust THEN RInt(1) ELSE alpha, adjust)

RECURSIVE EwmState(_, _, _, _)
EwmState(s, i, alpha, adjust) ==
    IF i = 1 THEN EwmFirst(s[1])
    ELSE EwmUpdate(EwmState(s, i - 1, alpha, adjust), s[i], alpha, adjust)

\* min_periods of an exponentially weighted window: 0 unless given
EwmMinPeriods(kw) ==
    IF "min_periods" \in DOMAIN kw THEN kw["min_periods"] ELSE 0

EwmOutput(st, minp) == IF st.nobs >= minp THEN st.weighted ELSE NaN

\* EwmMean with span read as the centre of mass, alpha = 1 / (span + 1)
EwmMeanOfCom(s, span, kw) ==
    [i \in 1..Len(s) |->
        EwmOutput(EwmState(s, i, Norm(1, span + 1), kw["adjust"]),
                  Max(EwmMinPeriods(kw), 1))]

\* Series.ewm(span=span, **kw).mean(), alpha = 2 / (span + 1)
EwmMean(s, span, kw) ==
    [i \in 1..Len(s) |->
        EwmOutput(EwmState(s, i, Norm(2, span + 1), kw["adjust"]),
                  Max(EwmMinPeriods(kw), 1))]

\* Series.astype(int) fails on a missing or infinite entry
AstypeIntRaises(s) == \E i \in 1..Len(s) : s[i].k # "num"

\* Series.astype(int) of a column of finite numbers: truncation
AstypeInt(s) == [i \in 1..Len(s) |-> IF Sign(s[i]) >= 0 THEN Floor(s[i]) ELSE Ceil(s[i])]

---------------------------------------------------------------------------
(* Results of a call *)

NoObj == [class |-> "none"]

NoCall == [op |-> "none"]

NoRet == [kind |-> "none"]

\* what a run has done to the world: the calls it made to its collaborators,
\* in order, and the files it left
NoIo == [trace |-> << >>, files |-> << >>]

Returned(v) == [kind |-> "return", value |-> v]

Raised(exc, msg) == [kind |-> "raise", exc |-> exc, msg |-> msg]

\* Series - Series
Minus(s, t) == [i \in 1..Len(s) |-> FSub(s[i], t[i])]

\* OverZeroOf with 0 for the quotient of two zeros
OverOrZero(s, t, zero) ==
    [i \in 1..Len(s) |->
        IF s[i].k = "num" /\ t[i].k = "num" /\ Sign(s[i]) = 0 /\ Sign(t[i]) = 0
        THEN I(0)
        ELSE IF zero < 0 /\ t[i].k = "num" /\ Sign(t[i]) = 0
        THEN FNeg(FDiv(s[i], t[i]))
        ELSE FDiv(s[i], t[i])]

\* Series / Series where the zeros of the divisor carry the sign zero: a
\* positive number over -0.0 is -inf
OverZeroOf(s, t, zero) ==
    [i \in 1..Len(s) |->
        IF zero < 0 /\ t[i].k = "num" /\ Sign(t[i]) = 0
        THEN FNeg(FDiv(s[i], t[i]))
        ELSE FDiv(s[i], t[i])]

\* Series * scalar
Times(s, x) == [i \in 1..Len(s) |-> FMul(s[i], x)]

---------------------------------------------------------------------------
(* src/tifft/bollingerbands.py *)

\* FLOAT_TOLERANCE = 1e-10, in Ticks of 1e-11
FLOAT_TOLERANCE == 10

Tolerance == Rational(RZero, FLOAT_TOLERANCE)

BollingerBandsCalculator(window_size, sd_multiplier, kwargs) ==
    [class |-> "bb",
     sd_multiplier |-> sd_multiplier,
     rolling_kwargs |-> kwargs @@ ("window" :> window_size)]

\* int() and round() fail on an infinity
BbSignalRaises(x) == x.k \in {"inf", "ninf"}

\* BbSignal without the tolerance around whole numbers
BbSignalNoTolerance(x) ==
    IF IsNaN(x) THEN 0
    ELSE IF FGt(x, I(0)) THEN Floor(x) ELSE Ceil(x)

\* the lambda applied to every residual
BbSignal(x) ==
    IF IsNaN(x) THEN 0
    ELSE IF FGt(FAbs(FSub(x, I(Round(x)))), Tolerance)
    THEN IF FGt(x, I(0)) THEN Floor(x) ELSE Ceil(x)
    ELSE Round(x)

\* BbLower with the sign of the band slipped
BbLowerPlus(ma, sd, sd_multiplier) == FAdd(ma, FMul(sd, I(sd_multiplier)))

BbLower(ma, sd, sd_multiplier) == FSub(ma, FMul(sd, I(sd_multiplier)))

\* BbUpper with the multiplier left out
BbUpperUnscaled(ma, sd, sd_multiplier) == FAdd(ma, sd)

BbUpper(ma, sd, sd_multiplier) == FAdd(ma, FMul(sd, I(sd_multiplier)))

\* BbResidual left in the units of the values
BbResidualUnscaled(value_ff, ma, sd) == FSub(value_ff, ma)

BbResidual(value_ff, ma, sd) == FDiv(FSub(value_ff, ma), sd)

BbFfill(d) == Assign(d, "value_ff", Ffill(d.data["value"]))

BbRolling(self, d) ==
    Assign(Assign(d,
        "ma", RollingMean(d.data["value_ff"], self.rolling_kwargs)),
        "sd", RollingStd(d.data["value_ff"], self.rolling_kwargs))

BbBands(self, d) ==
    Assign(Assign(Assign(d,
        "lower_bb", [i \in 1..Len(d.data["value"]) |->
                        BbLower(d.data["ma"][i], d.data["sd"][i], self.sd_multiplier)]),
        "upper_bb", [i \in 1..Len(d.data["value"]) |->
                        BbUpper(d.data["ma"][i], d.data["sd"][i], self.sd_multiplier)]),
        "residual", [i \in 1..Len(d.data["value"]) |->
                        BbResidual(d.data["value_ff"][i], d.data["ma"][i], d.data["sd"][i])])

BbSignals(d) ==
    Assign(d, "signal",
           [i \in 1..Len(d.data["value"]) |-> BbSignal(d.data["residual"][i])])

BbFrame(self, values) ==
    BbSignals(BbBands(self, BbRolling(self, BbFfill(NewFrame(values)))))

BbReturn(self, d) ==
    IF RollingRaises(self.rolling_kwargs)
    THEN Raised("ValueError", "min_periods must be <= window")
    ELSE IF \E i \in 1..Len(d.data["residual"]) : BbSignalRaises(d.data["residual"][i])
    THEN Raised("OverflowError", "cannot convert float infinity to integer")
    ELSE Returned(Drop(d, {"value_ff", "residual"}))

BbCalculate(self, values) == BbReturn(self, BbFrame(self, values))

---------------------------------------------------------------------------
(* src/tifft/macd.py *)

InvalidSpans == "fast_ema_span must be less than slow_ema_span"

\* MacdInit with the comparison of the spans made strict
MacdInitStrictCheck(fast_ema_span, slow_ema_span, macd_ema_span, kwargs) ==
    IF fast_ema_span > slow_ema_span
    THEN [self |-> NoObj, ret |-> Raised("ValueError", InvalidSpans)]
    ELSE [self |-> [class |-> "macd",
                    fast_ema_span |-> fast_ema_span,
                    slow_ema_span |-> slow_ema_span,
                    macd_ema_span |-> macd_ema_span,
                    ewm_kwargs |-> kwargs @@ ("adjust" :> FALSE)],
          ret |-> NoRet]

\* __init__: the attributes of self when it exits, and whether it raised
MacdInit(fast_ema_span, slow_ema_span, macd_ema_span, kwargs) ==
    IF fast_ema_span >= slow_ema_span
    THEN [self |-> NoObj, ret |-> Raised("ValueError", InvalidSpans)]
    ELSE [self |-> [class |-> "macd",
                    fast_ema_span |-> fast_ema_span,
                    slow_ema_span |-> slow_ema_span,
                    macd_ema_span |-> macd_ema_span,
                    ewm_kwargs |-> kwargs @@ ("adjust" :> FALSE)],
          ret |-> NoRet]

\* the chain of mask calls on macd_ema_delta; every condition reads the
\* columns of the frame, not the series masked so far
MacdSignal(delta, macd) ==
    Mask(Mask(Mask(Mask(delta,
        [i \in 1..Len(delta) |-> FGt(delta[i], I(0)) /\ FGt(macd[i], I(0))], I(2)),
        [i \in 1..Len(delta) |-> FGt(delta[i], I(0))], I(1)),
        [i \in 1..Len(delta) |-> FLt(delta[i], I(0)) /\ FLt(macd[i], I(0))], I(-2)),
        [i \in 1..Len(delta) |-> FLt(delta[i], I(0))], I(-1))

MacdFfill(d) == Assign(d, "value_ff", Ffill(d.data["value"]))

MacdLine(self, d) ==
    Assign(d, "macd",
           Minus(EwmMean(d.data["value_ff"], self.fast_ema_span, self.ewm_kwargs),
                 EwmMean(d.data["value_ff"], self.slow_ema_span, self.ewm_kwargs)))

MacdEma(self, d) ==
    Assign(d, "macd_ema", EwmMean(d.data["macd"], self.macd_ema_span, self.ewm_kwargs))

MacdDelta(d) ==
    Assign(d, "macd_ema_delta", Minus(d.data["macd"], d.data["macd_ema"]))

MacdSignals(d) ==
    Assign(d, "signal", MacdSignal(d.data["macd_ema_delta"], d.data["macd"]))

MacdFrame(self, values) ==
    MacdSignals(MacdDelta(MacdEma(self, MacdLine(self, MacdFfill(NewFrame(values))))))

\* .astype(int) on the signal column, then .drop(...)
MacdReturn(d) ==
    IF AstypeIntRaises(d.data["signal"])
    THEN Raised("ValueError", "Cannot convert non-finite values (NA or inf) to integer")
    ELSE Returned(Drop(Assign(d, "signal", AstypeInt(d.data["signal"])),
                       {"value_ff", "macd_ema_delta"}))

MacdCalculate(self, values) == MacdReturn(MacdFrame(self, values))

---------------------------------------------------------------------------
(* src/tifft/rsi.py *)

\* RsiCalculator with the window raised to at least 1
RsiCalculatorClamped(window_size, upper_line, lower_line, kwargs) ==
    [class |-> "rsi",
     upper_line |-> upper_line,
     lower_line |-> lower_line,
     rolling_kwargs |-> kwargs @@ ("window" :> IF window_size < 1 THEN 1 ELSE window_size)]

RsiCalculator(window_size, upper_line, lower_line, kwargs) ==
    [class |-> "rsi",
     upper_line |-> upper_line,
     lower_line |-> lower_line,
     rolling_kwargs |-> kwargs @@ ("window" :> window_size)]

\* RsiSignal with the lines included in the signalled ranges
RsiSignalInclusive(rsi, upper_line, lower_line) ==
    IF ~FLt(rsi, I(upper_line)) /\ ~IsNaN(rsi) THEN 1
    ELSE IF ~FGt(rsi, I(lower_line)) /\ ~IsNaN(rsi) THEN -1
    ELSE 0

\* np.where(rsi > upper_line, 1, np.where(rsi < lower_line, -1, 0))
RsiSignal(rsi, upper_line, lower_line) ==
    IF FGt(rsi, I(upper_line)) THEN 1
    ELSE IF FLt(rsi, I(lower_line)) THEN -1
    ELSE 0

\* Rsi without the 1 added to rs
RsiOfRatio(rs) == FSub(I(100), FDiv(I(100), rs))

Rsi(rs) == FSub(I(100), FDiv(I(100), FAdd(I(1), rs)))

RsiDiff(d) == Assign(d, "ff_diff", Diff(Ffill(d.data["value"])))

RsiMoves(d) ==
    Assign(Assign(d,
        "upward", Mask(d.data["ff_diff"],
                       [i \in 1..Len(d.data["ff_diff"]) |-> FLt(d.data["ff_diff"][i], I(0))],
                       I(0))),
        "downward", Times(Mask(d.data["ff_diff"],
                               [i \in 1..Len(d.data["ff_diff"]) |-> FGt(d.data["ff_diff"][i], I(0))],
                               I(0)),
                          I(-1)))

\* every zero of downward is -0.0 (a float times -1); the mean of a window
\* of them is 0.0 or -0.0 with the pandas build, which zero tells
RsiStrength(self, d, zero) ==
    Assign(d, "rs", OverZeroOf(RollingMean(d.data["upward"], self.rolling_kwargs),
                               RollingMean(d.data["downward"], self.rolling_kwargs),
                               zero))

RsiIndex(d) ==
    Assign(d, "rsi", [i \in 1..Len(d.data["rs"]) |-> Rsi(d.data["rs"][i])])

RsiSignals(self, d) ==
    Assign(d, "signal",
           [i \in 1..Len(d.data["rsi"]) |->
               RsiSignal(d.data["rsi"][i], self.upper_line, self.lower_line)])

RsiFrame(self, values, zero) ==
    RsiSignals(self, RsiIndex(RsiStrength(self, RsiMoves(RsiDiff(NewFrame(values))), zero)))

RsiCalculate(self, values, zero) ==
    IF RollingRaises(self.rolling_kwargs)
    THEN Raised("ValueError", "min_periods must be <= window")
    ELSE Returned(Drop(RsiFrame(self, values, zero), {"ff_diff", "upward", "downward"}))

---------------------------------------------------------------------------
(* The program: a calculator is constructed, then calculate is called on   *)
(* it with a value sequence (src/tifft/datareader.py, lines 159-161)       *)

Value == {NaN} \cup {I(v) : v \in 0..MaxValue}

RECURSIVE SeqsUpTo(_, _)
SeqsUpTo(S, n) ==
    IF n = 0 THEN {<< >>}
    ELSE LET shorter == SeqsUpTo(S, n - 1)
         IN  shorter \cup {Append(s, x) : s \in {t \in shorter : Len(t) = n - 1}, x \in S}

IntSeq(s) == [i \in 1..Len(s) |-> I(s[i])]

\* the inputs of the scenarios in the test suite
BandsScenario == IntSeq(<<100, 100, 100, 110, 120>>)

JumpsScenario == IntSeq(<<100, 100, 100, 200, 50>>)

RsiScenario == IntSeq(<<100, 102, 101, 103>>)

UptrendScenario == IntSeq(<<100, 102, 104, 106>>)

DowntrendScenario == IntSeq(<<120, 118, 116, 114>>)

Scenarios ==
    {BandsScenario, JumpsScenario, RsiScenario, UptrendScenario, DowntrendScenario}

Inputs == SeqsUpTo(Value, MaxLen) \cup Scenarios

Kwargs == {<< >>} \cup {("min_periods" :> m) : m \in 1..MaxMinPeriods}

\* the options forwarded to ewm: min_periods, or adjust overriding the default
EwmKwargs == Kwargs \cup {("adjust" :> TRUE)}

\* <<upper_line, lower_line>>: the defaults, crossed lines, lines that touch
\* and the ends of the scale
Lines == {<<70, 30>>, <<30, 70>>, <<50, 50>>, <<100, 0>>}

\* the sign of the zero a rolling mean of -0.0 entries returns; only
\* RsiCalculator divides by such a mean
ZeroSigns(self) == IF self.class = "rsi" THEN {1, -1} ELSE {1}

Init ==
    /\ obj = NoObj
    /\ call = NoCall
    /\ ret = NoRet
    /\ io = NoIo

NewMacd(fast, slow, span, kwargs) ==
    LET r == MacdInit(fast, slow, span, kwargs)
    IN  /\ obj = NoObj
        /\ call = NoCall
        /\ call' = [op |-> "MacdCalculator", fast_ema_span |-> fast,
                    slow_ema_span |-> slow, macd_ema_span |-> span,
                    kwargs |-> kwargs, self |-> r.self]
        /\ ret' = IF r.ret = NoRet THEN Returned(r.self) ELSE r.ret
        /\ obj' = IF r.ret = NoRet THEN r.self ELSE obj
        /\ UNCHANGED io

NewBb(window_size, sd_multiplier, kwargs) ==
    LET self == BollingerBandsCalculator(window_size, sd_multiplier, kwargs)
    IN  /\ obj = NoObj
        /\ call = NoCall
        /\ call' = [op |-> "BollingerBandsCalculator", window_size |-> window_size,
                    sd_multiplier |-> sd_multiplier, kwargs |-> kwargs, self |-> self]
        /\ ret' = Returned(self)
        /\ obj' = self
        /\ UNCHANGED io

NewRsi(window_size, upper_line, lower_line, kwargs) ==
    LET self == RsiCalculator(window_size, upper_line, lower_line, kwargs)
    IN  /\ obj = NoObj
        /\ call = NoCall
        /\ call' = [op |-> "RsiCalculator", window_size |-> window_size,
                    upper_line |-> upper_line, lower_line |-> lower_line,
                    kwargs |-> kwargs, self |-> self]
        /\ ret' = Returned(self)
        /\ obj' = self
        /\ UNCHANGED io

Calculate(values, zero) ==
    /\ obj # NoObj
    /\ call.op # "calculate"
    /\ call' = [op |-> "calculate", values |-> values]
    /\ ret' = IF obj.class = "macd" THEN MacdCalculate(obj, values)
              ELSE IF obj.class = "bb" THEN BbCalculate(obj, values)
              ELSE RsiCalculate(obj, values, zero)
    /\ UNCHANGED <<obj, io>>

Next ==
    \/ \E f \in 1..MaxSpan, s \in 1..MaxSpan, m \in 1..MaxSpan, kw \in EwmKwargs :
          NewMacd(f, s, m, kw)
    \/ \E w \in 1..MaxWindow, k \in 1..MaxMultiplier, kw \in Kwargs :
          NewBb(w, k, kw)
    \/ \E w \in 1..MaxWindow, l \in Lines, kw \in Kwargs :
          NewRsi(w, l[1], l[2], kw)
    \/ \E v \in Inputs, z \in ZeroSigns(obj) : Calculate(v, z)

Spec == Init /\ [][Next]_vars

---------------------------------------------------------------------------
(* The signal lambda of BollingerBandsCalculator.calculate as a function   *)
(* of the residual it is applied to                                        *)

MaxResidual == 3
MaxTicks == 11

\* residuals: halves up to MaxResidual, each with the values up to MaxTicks
\* Ticks around it, and the residuals of the scenario with the large jumps
Residuals ==
    {NaN}
    \cup {Rational(Norm(n, 2), e) :
            n \in (-2 * MaxResidual)..(2 * MaxResidual), e \in (-MaxTicks)..MaxTicks}
    \cup Range(BbFrame(BollingerBandsCalculator(3, 2, << >>), JumpsScenario).data["residual"])

ApplySignal(x) ==
    /\ call = NoCall
    /\ call' = [op |-> "signal", residual |-> x]
    /\ ret' = IF BbSignalRaises(x)
              THEN Raised("OverflowError", "cannot convert float infinity to integer")
              ELSE Returned(BbSignal(x))
    /\ UNCHANGED <<obj, io>>

NextSignal == \E x \in Residuals : ApplySignal(x)

SpecSignal == Init /\ [][NextSignal]_vars

---------------------------------------------------------------------------
(* Construction alone, with parameters of either sign                      *)

MaxParameter == 2

Parameters == (-MaxParameter)..MaxParameter

NextInit ==
    \/ \E f \in Parameters, s \in Parameters, m \in Parameters, kw \in EwmKwargs :
          NewMacd(f, s, m, kw)
    \/ \E w \in Parameters, k \in Parameters, kw \in Kwargs :
          NewBb(w, k, kw)
    \/ \E w \in Parameters, u \in Parameters, l \in Parameters, kw \in Kwargs :
          NewRsi(w, u, l, kw)

SpecInit == Init /\ [][NextInit]_vars

---------------------------------------------------------------------------
(* Repeated and overlapping calls of calculate on one instance             *)

MaxPending == 2

\* the value sequences of the repeated calls
CallInputs == {<<I(0), I(1)>>, <<I(1), NaN, I(0)>>, <<NaN>>, RsiScenario}

\* AfterCalculate with the last input kept on the instance
AfterCalculateCaching(self, values) == self @@ ("values" :> values)

\* the instance a call of calculate leaves behind: no calculate assigns to
\* an attribute of self
AfterCalculate(self, values) == self

\* the frame of the calls on obj: the constructor call that made it, the sign
\* of zero of the build, the inputs of the calls in flight, and whether ret
\* is the outcome of a call on values
Calls(made, zero, pending, returned, values) ==
    [op |-> "calculate", made |-> made, zero |-> zero, pending |-> pending,
     returned |-> returned, values |-> values]

CallsOf(zero) ==
    IF call.op = "calculate" THEN call ELSE Calls(call, zero, << >>, FALSE, << >>)

Without(s, i) == SubSeq(s, 1, i - 1) \o SubSeq(s, i + 1, Len(s))

\* calculate is entered with values
EnterCalculate(values, zero) ==
    /\ obj # NoObj
    /\ CallsOf(zero).zero = zero
    /\ Len(CallsOf(zero).pending) < MaxPending
    /\ call' = [CallsOf(zero) EXCEPT !.pending = Append(@, values)]
    /\ UNCHANGED <<obj, ret, io>>

\* the i-th call in flight reads the instance, computes and returns
LeaveCalculate(i) ==
    /\ call.op = "calculate"
    /\ i \in 1..Len(call.pending)
    /\ ret' = IF obj.class = "macd" THEN MacdCalculate(obj, call.pending[i])
              ELSE IF obj.class = "bb" THEN BbCalculate(obj, call.pending[i])
              ELSE RsiCalculate(obj, call.pending[i], call.zero)
    /\ obj' = AfterCalculate(obj, call.pending[i])
    /\ call' = [call EXCEPT !.pending = Without(@, i), !.returned = TRUE,
                            !.values = call.pending[i]]
    /\ UNCHANGED io

NextCalls ==
    \/ \E f \in 1..MaxSpan, s \in 1..MaxSpan, m \in 1..MaxSpan, kw \in EwmKwargs :
          NewMacd(f, s, m, kw)
    \/ \E w \in 1..MaxWindow, k \in 1..MaxMultiplier, kw \in Kwargs :
          NewBb(w, k, kw)
    \/ \E w \in 1..MaxWindow, l \in Lines, kw \in Kwargs :
          NewRsi(w, l[1], l[2], kw)
    \/ \E v \in CallInputs, z \in ZeroSigns(obj) : EnterCalculate(v, z)
    \/ \E i \in 1..MaxPending : LeaveCalculate(i)

SpecCalls == Init /\ [][NextCalls]_vars

---------------------------------------------------------------------------
(* src/tifft/datareader.py and src/tifft/cli.py: one run of a command.     *)
(* call is the frame of the running function (its bound arguments, locals  *)
(* and position), io the calls made to the collaborators and the files.    *)

None == "None"

\* the truth value of an optional string: if output_csv_path:
Truthy(x) == x # None /\ x # ""

\* {**f, **g}
Updated(f, g) == [k \in DOMAIN f \cup DOMAIN g |-> IF k \in DOMAIN g THEN g[k] ELSE f[k]]

Event(ev, arg) == [ev |-> ev, arg |-> arg]

Logged(world, e) == [world EXCEPT !.trace = Append(@, e)]

DataFrame(index, cols, data) == [index |-> index, cols |-> cols, data |-> data]

NoFrame == DataFrame(<< >>, << >>, << >>)

\* DataFrame.dropna(): the rows without a missing value
Dropna(df) ==
    LET keep == SelectSeq([i \in 1..Len(df.index) |-> i],
                          LAMBDA i : \A c \in DOMAIN df.data : ~IsNaN(df.data[c][i]))
    IN  DataFrame([j \in 1..Len(keep) |-> df.index[keep[j]]], df.cols,
                  [c \in DOMAIN df.data |-> [j \in 1..Len(keep) |-> df.data[c][keep[j]]]])

\* d.rename(columns={k: k.upper() for k in d.columns})
Upper ==
    "value" :> "VALUE" @@ "signal" :> "SIGNAL" @@ "macd" :> "MACD"
    @@ "macd_ema" :> "MACD_EMA" @@ "ma" :> "MA" @@ "sd" :> "SD"
    @@ "lower_bb" :> "LOWER_BB" @@ "upper_bb" :> "UPPER_BB" @@ "rs" :> "RS" @@ "rsi" :> "RSI"

\* the table calculate returns for a column of df_hist, on the index of
\* df_hist (values.to_frame keeps it), with the columns renamed
Renamed(d, index) ==
    DataFrame(index, [j \in 1..Len(d.cols) |-> Upper[d.cols[j]]],
              [c \in {Upper[x] : x \in DOMAIN d.data} |->
                  d.data[CHOOSE x \in DOMAIN d.data : Upper[x] = c]])

\* the columns of integers: every signal column
IntColumns == {"signal", "SIGNAL"}

Field(text, repr) == [text |-> text, repr |-> repr]

\* a cell as to_csv writes it: a missing value as the empty field, an
\* integer in decimal, a float in its round-trip representation
FormatCell(c, x) ==
    IF c \in IntColumns THEN Field("int", x)
    ELSE IF IsNaN(x) THEN Field("empty", NaN)
    ELSE Field("float", x)

\* df.to_csv(header=True, sep=","): the lines of the file, each the sequence
\* of its comma-separated fields; the index is unnamed and written first
ToCsv(df) ==
    <<(<<Field("empty", NaN)>> \o [j \in 1..Len(df.cols) |-> Field("str", df.cols[j])])>>
    \o [i \in 1..Len(df.index) |->
          <<Field("int", df.index[i])>>
          \o [j \in 1..Len(df.cols) |-> FormatCell(df.cols[j], df.data[df.cols[j]][i])]]

\* Path(csv_path).resolve()
Cwd == "/cwd"

Resolve(csv_path) == <<Cwd, csv_path>>

\* WriteDfToCsv opening the file with mode="a"
WriteDfToCsvAppending(world, df, csv_path) ==
    Logged([world EXCEPT !.files =
                Updated(@, Resolve(csv_path) :>
                    (IF Resolve(csv_path) \in DOMAIN world.files
                     THEN world.files[Resolve(csv_path)] ELSE << >>) \o ToCsv(df))],
           Event("to_csv", Resolve(csv_path)))

\* _write_df_to_csv: mode="w" replaces the file
WriteDfToCsv(world, df, csv_path) ==
    Logged([world EXCEPT !.files = Updated(@, Resolve(csv_path) :> ToCsv(df))],
           Event("to_csv", Resolve(csv_path)))

\* the frames the remote source answers with (the frames of the tests: one
\* column of closing values, a default integer index), and two columns for
\* a list of names
RemoteFrames ==
    {DataFrame(<<0, 1, 2>>, <<"Close">>, ("Close" :> v)) :
        v \in {<<I(0), I(1), I(0)>>, <<I(1), NaN, I(0)>>, <<NaN, I(0), I(1)>>}}
    \cup {DataFrame(<<0, 1>>, <<"SPY", "QQQ">>,
                    ("SPY" :> <<I(1), NaN>> @@ "QQQ" :> <<I(0), I(1)>>))}

\* pdd.DataReader(**kwargs) returns a frame or fails
DataReaderOutcomes ==
    {Returned(df) : df \in RemoteFrames} \cup {Raised("RemoteDataError", "Unable to read URL")}

\* int(s) for the option strings
Ints == "1" :> 1 @@ "2" :> 2

OptionStrings == {"1", "2", "x"}

Recognized == {"macd", "bb", "rsi"}

ParamKeys(indicator) ==
    IF indicator = "macd" THEN <<"fast_ema_span", "slow_ema_span", "macd_ema_span">>
    ELSE IF indicator = "bb" THEN <<"window_size", "sd_multiplier">>
    ELSE <<"window_size", "upper_line", "lower_line">>

\* the first key whose kwargs[k] or int(kwargs[k]) raises, 0 if none
FirstBadKey(keys, kwargs) ==
    LET bad == {i \in 1..Len(keys) :
                   keys[i] \notin DOMAIN kwargs \/ kwargs[keys[i]] \notin DOMAIN Ints}
    IN  IF bad = {} THEN 0 ELSE CHOOSE i \in bad : \A j \in bad : i <= j

\* ParamsOf with every name recognized
ParamsOfAnyName(indicator, kwargs) ==
    LET keys == ParamKeys(indicator)
        bad  == FirstBadKey(keys, kwargs)
    IN  IF bad # 0 /\ keys[bad] \notin DOMAIN kwargs THEN Raised("KeyError", keys[bad])
        ELSE IF bad # 0 THEN Raised("ValueError", <<"invalid literal for int()", kwargs[keys[bad]]>>)
        ELSE Returned([k \in Range(keys) |-> Ints[kwargs[k]]])

\* the if / elif / else on indicator: params, or the error raised
ParamsOf(indicator, kwargs) ==
    LET keys == ParamKeys(indicator)
        bad  == FirstBadKey(keys, kwargs)
    IN  IF indicator \notin Recognized
        THEN Raised("ValueError", <<"invalid indicator: ", indicator>>)
        ELSE IF bad # 0 /\ keys[bad] \notin DOMAIN kwargs THEN Raised("KeyError", keys[bad])
        ELSE IF bad # 0 THEN Raised("ValueError", <<"invalid literal for int()", kwargs[keys[bad]]>>)
        ELSE Returned([k \in Range(keys) |-> Ints[kwargs[k]]])

\* calculator(**params): the instance, or the error of the constructor
Constructed(indicator, params) ==
    IF indicator = "macd"
    THEN MacdInit(params["fast_ema_span"], params["slow_ema_span"],
                  params["macd_ema_span"], << >>)
    ELSE IF indicator = "bb"
    THEN [self |-> BollingerBandsCalculator(params["window_size"],
                                            params["sd_multiplier"], << >>),
          ret |-> NoRet]
    ELSE [self |-> RsiCalculator(params["window_size"], params["upper_line"],
                                 params["lower_line"], << >>),
          ret |-> NoRet]

\* IlocFirst taking the last column
IlocLast(df) == df.data[df.cols[Len(df.cols)]]

\* df_hist.iloc[:, 0]
IlocFirst(df) == df.data[df.cols[1]]

CalculateOf(self, values, zero) ==
    IF self.class = "macd" THEN MacdCalculate(self, values)
    ELSE IF self.class = "bb" THEN BbCalculate(self, values)
    ELSE RsiCalculate(self, values, zero)

\* the defaults of the keyword parameters of both functions
Defaults ==
    "data_source" :> "fred" @@ "api_key" :> None @@ "start_date" :> None
    @@ "end_date" :> None @@ "max_rows" :> None @@ "drop_na" :> FALSE
    @@ "output_csv_path" :> None

\* Entered with the run starting at the check of the indicator
EnteredAtCheck(callee, kwargs, caller) ==
    [op |-> callee, pc |-> "indicator", args |-> Updated(Defaults, kwargs),
     caller |-> caller, df_hist |-> NoFrame, params |-> << >>, df_indicator |-> NoFrame]

\* the frame of a call of callee with the keyword arguments kwargs
Entered(callee, kwargs, caller) ==
    [op |-> callee, pc |-> "load", args |-> Updated(Defaults, kwargs), caller |-> caller,
     df_hist |-> NoFrame, params |-> << >>, df_indicator |-> NoFrame]

At(callee, pc) == call.op = callee /\ call.pc = pc

\* the name pdd.DataReader is given: a list of names goes to fred and iex
\* whole, as its first element to the other sources
ReaderName(name, data_source) ==
    IF data_source \in {"fred", "iex"} THEN name ELSE name[1]

\* df_hist = _load_data_with_pandas_datareader(...).pipe(dropna if drop_na)
Loaded(reader_name, outcome) ==
    /\ io' = LET asked == Logged(io, Event("DataReader",
                              [name |-> reader_name, data_source |-> call.args["data_source"],
                               start |-> call.args["start_date"], end |-> call.args["end_date"],
                               api_key |-> call.args["api_key"]]))
             IN  IF outcome.kind = "return" /\ call.args["drop_na"]
                 THEN Logged(asked, Event("dropna", None))
                 ELSE asked
    /\ IF outcome.kind = "raise"
       THEN call' = [call EXCEPT !.pc = "raised"] /\ ret' = outcome
       ELSE /\ call' = [call EXCEPT !.pc = IF call.op = "fetch_remote_data"
                                           THEN "print" ELSE "indicator",
                                    !.df_hist = IF call.args["drop_na"]
                                                THEN Dropna(outcome.value)
                                                ELSE outcome.value]
            /\ UNCHANGED ret
    /\ UNCHANGED obj

(* fetch_remote_data *)

FrLoad(outcome) ==
    /\ At("fetch_remote_data", "load")
    /\ Loaded(ReaderName(call.args["name"], call.args["data_source"]), outcome)

FrPrint ==
    /\ At("fetch_remote_data", "print")
    /\ io' = Logged(io, Event("print", call.df_hist))
    /\ call' = [call EXCEPT !.pc = "write"]
    /\ UNCHANGED <<obj, ret>>

FrWrite ==
    /\ At("fetch_remote_data", "write")
    /\ io' = IF Truthy(call.args["output_csv_path"])
             THEN WriteDfToCsv(io, call.df_hist, call.args["output_csv_path"])
             ELSE io
    /\ call' = [call EXCEPT !.pc = "done"]
    /\ ret' = Returned(None)
    /\ UNCHANGED obj

(* calculate_indicator_for_remote_data *)

CiLoad(outcome) ==
    /\ At("calculate_indicator_for_remote_data", "load")
    /\ Loaded(call.args["name"], outcome)

\* the check of indicator and the conversion of the parameters
CiIndicator ==
    LET r == ParamsOf(call.args["indicator"], call.args)
    IN  /\ At("calculate_indicator_for_remote_data", "indicator")
        /\ IF r.kind = "raise"
           THEN call' = [call EXCEPT !.pc = "raised"] /\ ret' = r
           ELSE call' = [call EXCEPT !.pc = "construct", !.params = r.value]
                /\ UNCHANGED ret
        /\ UNCHANGED <<obj, io>>

\* _print_key_values(**params); calculator(**params)
CiConstruct ==
    LET r == Constructed(call.args["indicator"], call.params)
    IN  /\ At("calculate_indicator_for_remote_data", "construct")
        /\ io' = Logged(io, Event("construct",
                                  [class |-> call.args["indicator"], params |-> call.params]))
        /\ IF r.ret # NoRet
           THEN call' = [call EXCEPT !.pc = "raised"] /\ ret' = r.ret /\ UNCHANGED obj
           ELSE call' = [call EXCEPT !.pc = "calculate"] /\ obj' = r.self /\ UNCHANGED ret

\* .calculate(values=df_hist.iloc[:, 0]).pipe(rename)
CiCalculate(zero) ==
    LET values == IlocFirst(call.df_hist)
        r == CalculateOf(obj, values, zero)
    IN  /\ At("calculate_indicator_for_remote_data", "calculate")
        /\ io' = Logged(io, Event("calculate", values))
        /\ IF r.kind = "raise"
           THEN call' = [call EXCEPT !.pc = "raised"] /\ ret' = r
           ELSE call' = [call EXCEPT !.pc = "print",
                                     !.df_indicator = Renamed(r.value, call.df_hist.index)]
                /\ UNCHANGED ret
        /\ UNCHANGED obj

CiPrint ==
    /\ At("calculate_indicator_for_remote_data", "print")
    /\ io' = Logged(io, Event("print", call.df_indicator))
    /\ call' = [call EXCEPT !.pc = "write"]
    /\ UNCHANGED <<obj, ret>>

CiWrite ==
    /\ At("calculate_indicator_for_remote_data", "write")
    /\ io' = IF Truthy(call.args["output_csv_path"])
             THEN WriteDfToCsv(io, call.df_indicator, call.args["output_csv_path"])
             ELSE io
    /\ call' = [call EXCEPT !.pc = "done"]
    /\ ret' = Returned(None)
    /\ UNCHANGED obj

(* cli.main *)

\* the options main hands to both collaborators
Common(args) ==
    "data_source" :> args["--data-source"] @@ "api_key" :> args["--api-key"]
    @@ "start_date" :> args["--start"] @@ "end_date" :> args["--end"]
    @@ "max_rows" :> args["--max-rows"] @@ "drop_na" :> args["--drop-na"]
    @@ "output_csv_path" :> args["--output-csv"]

\* FirstName taking the last of the names
LastName(args) == args["<name>"][Len(args["<name>"])]

\* args["<name>"][0]
FirstName(args) == args["<name>"][1]

\* the if / elif chain of main: the collaborator called and its keyword
\* arguments
MainCall(args) ==
    IF args["history"]
    THEN [callee |-> "fetch_remote_data",
          kwargs |-> ("name" :> args["<name>"]) @@ Common(args)]
    ELSE IF args["macd"]
    THEN [callee |-> "calculate_indicator_for_remote_data",
          kwargs |-> ("name" :> FirstName(args)) @@ Common(args)
                     @@ "indicator" :> "macd"
                     @@ "fast_ema_span" :> args["--fast-ema-span"]
                     @@ "slow_ema_span" :> args["--slow-ema-span"]
                     @@ "macd_ema_span" :> args["--macd-ema-span"]]
    ELSE IF args["bb"]
    THEN [callee |-> "calculate_indicator_for_remote_data",
          kwargs |-> ("name" :> FirstName(args)) @@ Common(args)
                     @@ "indicator" :> "bb"
                     @@ "window_size" :> args["--bb-window"]
                     @@ "sd_multiplier" :> args["--sd-multiplier"]]
    ELSE IF args["rsi"]
    THEN [callee |-> "calculate_indicator_for_remote_data",
          kwargs |-> ("name" :> FirstName(args)) @@ Common(args)
                     @@ "indicator" :> "rsi"
                     @@ "window_size" :> args["--rsi-window"]
                     @@ "upper_line" :> args["--upper-rsi"]
                     @@ "lower_line" :> args["--lower-rsi"]]
    ELSE [callee |-> "none", kwargs |-> << >>]

Main(args) ==
    LET c == MainCall(args)
        caller == [op |-> "main", args |-> args]
    IN  /\ call = NoCall
        /\ IF c.callee = "none"
           THEN /\ call' = [op |-> "main", pc |-> "done", caller |-> caller]
                /\ ret' = Returned(None)
                /\ UNCHANGED io
           ELSE /\ call' = Entered(c.callee, c.kwargs, caller)
                /\ io' = Logged(io, Event(c.callee, c.kwargs))
                /\ UNCHANGED ret
        /\ UNCHANGED obj

\* calculate_indicator_for_remote_data called on its own, as the tests do
Invoke(kwargs) ==
    /\ call = NoCall
    /\ call' = Entered("calculate_indicator_for_remote_data", kwargs, NoCall)
    /\ UNCHANGED <<obj, ret, io>>

\* what docopt parsed: at most one command, the dataset names, the options
\* with their defaults (cli.py lines 31-45), the options of the command set
Parsed(command, names, output_csv, drop_na, own) ==
    Updated([k \in {"history", "macd", "bb", "rsi"} |-> k = command]
    @@ "<name>" :> names @@ "--data-source" :> "fred" @@ "--api-key" :> None
    @@ "--start" :> None @@ "--end" :> None @@ "--max-rows" :> "60"
    @@ "--drop-na" :> drop_na @@ "--output-csv" :> output_csv
    @@ "--debug" :> FALSE @@ "--info" :> FALSE
    @@ "--fast-ema-span" :> "12" @@ "--slow-ema-span" :> "26" @@ "--macd-ema-span" :> "9"
    @@ "--bb-window" :> "20" @@ "--sd-multiplier" :> "2"
    @@ "--rsi-window" :> "14" @@ "--upper-rsi" :> "70" @@ "--lower-rsi" :> "30",
    own)

OwnOptions(command) ==
    IF command = "macd"
    THEN {"--fast-ema-span" :> f @@ "--slow-ema-span" :> s @@ "--macd-ema-span" :> m :
            f \in OptionStrings, s \in OptionStrings, m \in OptionStrings}
    ELSE IF command = "bb"
    THEN {"--bb-window" :> w @@ "--sd-multiplier" :> k :
            w \in OptionStrings, k \in OptionStrings}
    ELSE IF command = "rsi"
    THEN {"--rsi-window" :> w @@ "--upper-rsi" :> u @@ "--lower-rsi" :> l :
            w \in OptionStrings, u \in OptionStrings, l \in OptionStrings}
    ELSE {"--data-source" :> d : d \in {"fred", "yahoo"}}

Commands == {"history", "macd", "bb", "rsi", "none"}

CsvPaths == {None, "", "output.csv"}

\* the keyword arguments of the calls the tests make
Invocations ==
    {("indicator" :> i @@ "name" :> "SPY" @@ "output_csv_path" :> p) @@ own :
        i \in {"invalid", "macd"}, p \in {None, "output.csv"},
        own \in {<< >>, "fast_ema_span" :> "1" @@ "slow_ema_span" :> "2"
                        @@ "macd_ema_span" :> "1"}}

\* the file system before the run: output.csv is absent, or holds a table
InitMain ==
    /\ obj = NoObj
    /\ call = NoCall
    /\ ret = NoRet
    /\ io \in {NoIo,
               [NoIo EXCEPT !.files =
                   Resolve("output.csv") :>
                       ToCsv(DataFrame(<<7>>, <<"OLD">>, ("OLD" :> <<I(1)>>)))]}

NextMain ==
    \/ \E c \in Commands, n \in {<<"SPY">>, <<"SPY", "QQQ">>}, p \in CsvPaths,
          d \in BOOLEAN : \E own \in OwnOptions(c) : Main(Parsed(c, n, p, d, own))
    \/ \E kwargs \in Invocations : Invoke(kwargs)
    \/ \E outcome \in DataReaderOutcomes : FrLoad(outcome)
    \/ FrPrint
    \/ FrWrite
    \/ \E outcome \in DataReaderOutcomes : CiLoad(outcome)
    \/ CiIndicator
    \/ CiConstruct
    \/ \E z \in ZeroSigns(obj) : CiCalculate(z)
    \/ CiPrint
    \/ CiWrite

SpecMain == InitMain /\ [][NextMain]_vars

---------------------------------------------------------------------------
(* Properties *)

Calculated(class) == call.op = "calculate" /\ obj.class = class

Table == ret.value

Col(name) == Table.data[name]

Rows == 1..Len(call.values)

MacdColumns == <<"value", "macd", "macd_ema", "signal">>

BbColumns == <<"value", "ma", "sd", "lower_bb", "upper_bb", "signal">>

RsiColumns == <<"value", "rs", "rsi", "signal">>

ColumnsOf(class) ==
    IF class = "macd" THEN MacdColumns
    ELSE IF class = "bb" THEN BbColumns
    ELSE RsiColumns

\* C1: every row of the MACD table is classified by first match on
\* delta = macd - macd_ema: 2 for delta > 0 and macd > 0, 1 for delta > 0,
\* -2 for delta < 0 and macd < 0, -1 for delta < 0, 0 for delta = 0.
C1_FirstMatchClassification ==
    (Calculated("macd") /\ ret.kind = "return") =>
        \A i \in Rows :
            LET macd  == Col("macd")[i]
                delta == FSub(macd, Col("macd_ema")[i])
            IN  Col("signal")[i] =
                    IF FGt(delta, I(0)) /\ FGt(macd, I(0)) THEN 2
                    ELSE IF FGt(delta, I(0)) THEN 1
                    ELSE IF FLt(delta, I(0)) /\ FLt(macd, I(0)) THEN -2
                    ELSE IF FLt(delta, I(0)) THEN -1
                    ELSE 0

\* the indicator whose signal a row carries is missing
Undefined(class, i) ==
    IF class = "macd" THEN IsNaN(Col("macd")[i]) \/ IsNaN(Col("macd_ema")[i])
    ELSE IF class = "bb" THEN IsNaN(Col("ma")[i]) \/ IsNaN(Col("sd")[i])
                              \/ Sign(Col("sd")[i]) = 0
    ELSE IsNaN(Col("rsi")[i])

\* C2: calculate never raises, every signal is an integer of the calculator's
\* alphabet, and a row whose indicator is undefined has signal 0.
C2_SignalAlwaysDefined ==
    call.op = "calculate" =>
        /\ ret.kind = "return"
        /\ \A i \in Rows :
              /\ Col("signal")[i] \in
                    (IF obj.class = "macd" THEN -2..2
                     ELSE IF obj.class = "rsi" THEN -1..1
                     ELSE Int)
              /\ Undefined(obj.class, i) => Col("signal")[i] = 0

\* C3: calculate returns a table with one row per input position.
C3_RowCount ==
    call.op = "calculate" =>
        /\ ret.kind = "return"
        /\ \A c \in DOMAIN Table.data : Len(Col(c)) = Len(call.values)

\* C4: the returned table has exactly the calculator's columns, in order,
\* for every input, the empty and the one-row input included.
C4_ColumnSet ==
    call.op = "calculate" =>
        /\ ret.kind = "return"
        /\ Table.cols = ColumnsOf(obj.class)
        /\ DOMAIN Table.data = Range(ColumnsOf(obj.class))

\* C5: the value column of the returned table is the input, position by
\* position, a missing input staying missing.
C5_ValuePreserved ==
    call.op = "calculate" =>
        /\ ret.kind = "return"
        /\ Col("value") = call.values

\* C6: MacdCalculator(fast, slow, ...) raises ValueError before storing an
\* attribute exactly when fast >= slow; otherwise it yields the instance.
C6_SpanValidation ==
    /\ obj.class = "macd" => obj.fast_ema_span < obj.slow_ema_span
    /\ call.op = "MacdCalculator" =>
          IF call.fast_ema_span >= call.slow_ema_span
          THEN /\ ret = Raised("ValueError", InvalidSpans)
               /\ call.self = NoObj
               /\ obj = NoObj
          ELSE /\ ret.kind = "return"
               /\ obj = ret.value
               /\ obj.class = "macd"
               /\ obj.fast_ema_span = call.fast_ema_span
               /\ obj.slow_ema_span = call.slow_ema_span

C6_Witness ==
    /\ call.op = "MacdCalculator"
    /\ call.fast_ema_span = call.slow_ema_span
    /\ ret.kind = "raise"

\* s is x truncated toward zero (0 for a missing x)
IsTruncation(x, s) ==
    IF IsNaN(x) THEN s = 0
    ELSE IF Sign(x) > 0 THEN Sign(FSub(x, I(s))) >= 0 /\ Sign(FSub(x, I(s + 1))) < 0
    ELSE IF Sign(x) < 0 THEN Sign(FSub(x, I(s))) <= 0 /\ Sign(FSub(x, I(s - 1))) > 0
    ELSE s = 0

\* x lies within 1e-10 of the whole number k
Within(x, k) ==
    /\ CoarseSign(FSub(x, I(k))) = 0
    /\ Abs(FSub(x, I(k)).e) <= FLOAT_TOLERANCE

\* C7 as stated: the signal is the residual truncated toward zero, 0 for a
\* missing residual; a residual just below a whole number k > 0 gives k - 1.
C7_TruncatesTowardZero ==
    call.op = "signal" =>
        /\ ret.kind = "return"
        /\ IsTruncation(call.residual, ret.value)

\* C7 as amended: a residual within 1e-10 of a whole number gives that whole
\* number, every other residual is truncated toward zero, a missing one
\* gives 0.
C7_TruncatesOutsideTolerance ==
    call.op = "signal" =>
        /\ ret.kind = "return"
        /\ IF IsNaN(call.residual) THEN ret.value = 0
           ELSE IF \E k \in (-MaxResidual - 1)..(MaxResidual + 1) : Within(call.residual, k)
           THEN Within(call.residual, ret.value)
           ELSE IsTruncation(call.residual, ret.value)

C7_Witness ==
    /\ call.op = "signal"
    /\ ret.kind = "return"
    /\ ret.value > 0
    /\ Within(call.residual, ret.value)
    /\ Sign(FSub(call.residual, I(ret.value))) < 0

NonConstant(values) ==
    \E i, j \in 1..Len(values) :
        ~IsNaN(values[i]) /\ ~IsNaN(values[j]) /\ values[i] # values[j]

Width(t, i) == FSub(t.data["upper_bb"][i], t.data["lower_bb"][i])

\* the table of a calculator that differs from obj in sd_multiplier only
WithMultiplier(k) == BbCalculate([obj EXCEPT !.sd_multiplier = k], call.values).value

WidthsCompared(P(_, _, _)) ==
    (Calculated("bb") /\ ret.kind = "return" /\ NonConstant(call.values)) =>
        \A k \in (obj.sd_multiplier + 1)..(MaxMultiplier + 1) :
            \A i \in Rows :
                (~IsNaN(Width(Table, i)) /\ ~IsNaN(Width(WithMultiplier(k), i)))
                    => P(Width(Table, i), Width(WithMultiplier(k), i), Col("sd")[i])

\* C8 as stated: for a non-constant input a larger sd_multiplier gives a
\* strictly larger band width at every position where both widths are defined.
C8_StrictlyWider ==
    WidthsCompared(LAMBDA w1, w2, sd : FGt(w2, w1))

\* C8 as amended: the width is strictly larger wherever sd > 0, and both
\* widths are 0 wherever sd = 0.
C8_StrictlyWiderWhereSpread ==
    WidthsCompared(LAMBDA w1, w2, sd :
        IF Sign(sd) > 0 THEN FGt(w2, w1) ELSE Sign(w1) = 0 /\ Sign(w2) = 0)

C8_Witness ==
    /\ Calculated("bb")
    /\ ret.kind = "return"
    /\ NonConstant(call.values)
    /\ obj.sd_multiplier < MaxMultiplier
    /\ \E i, j \in Rows :
          /\ ~IsNaN(Col("sd")[i]) /\ Sign(Col("sd")[i]) > 0
          /\ ~IsNaN(Col("sd")[j]) /\ Sign(Col("sd")[j]) = 0

\* C9: wherever ma and sd are defined lower_bb = ma - sd*sd_multiplier and
\* upper_bb = ma + sd*sd_multiplier, elsewhere both bands are missing; for
\* [100,100,100,110,120], window 3, multiplier 2 the bands collapse to 100 at
\* index 2 and enclose ma strictly at index 4.
C9_BandFormulas ==
    (Calculated("bb") /\ ret.kind = "return") =>
        /\ \A i \in Rows :
              IF IsNaN(Col("ma")[i]) \/ IsNaN(Col("sd")[i])
              THEN IsNaN(Col("lower_bb")[i]) /\ IsNaN(Col("upper_bb")[i])
              ELSE /\ FEq(FAdd(Col("lower_bb")[i], FMul(Col("sd")[i], I(obj.sd_multiplier))),
                          Col("ma")[i])
                   /\ FEq(FSub(Col("upper_bb")[i], FMul(Col("sd")[i], I(obj.sd_multiplier))),
                          Col("ma")[i])
                   /\ FEq(Width(Table, i), FMul(Col("sd")[i], I(2 * obj.sd_multiplier)))
        /\ (call.values = BandsScenario /\ obj.rolling_kwargs = ("window" :> 3)
                /\ obj.sd_multiplier = 2) =>
              /\ Col("sd")[3] = I(0)
              /\ Col("ma")[3] = I(100)
              /\ Col("lower_bb")[3] = I(100)
              /\ Col("upper_bb")[3] = I(100)
              /\ Sign(Col("sd")[5]) > 0
              /\ FLt(Col("lower_bb")[5], Col("ma")[5])
              /\ FLt(Col("ma")[5], Col("upper_bb")[5])

C9_Witness ==
    /\ Calculated("bb")
    /\ ret.kind = "return"
    /\ call.values = BandsScenario
    /\ obj.rolling_kwargs = ("window" :> 3)
    /\ obj.sd_multiplier = 2

Constant(values) ==
    /\ Len(values) > 0
    /\ \A i \in 1..Len(values) : ~IsNaN(values[i]) /\ values[i] = values[1]

Collapsed(i) ==
    /\ Col("sd")[i] = I(0)
    /\ FEq(Col("lower_bb")[i], Col("ma")[i])
    /\ FEq(Col("upper_bb")[i], Col("ma")[i])

\* C10 as stated: for a constant input of length >= window_size, sd = 0 and
\* lower_bb = upper_bb = ma at every index >= window_size - 1, and signal = 0
\* at every position.
C10_ConstantInput ==
    (Calculated("bb") /\ Constant(call.values)
        /\ Len(call.values) >= obj.rolling_kwargs["window"]) =>
        /\ ret.kind = "return"
        /\ \A i \in Rows : i >= obj.rolling_kwargs["window"] => Collapsed(i)
        /\ \A i \in Rows : Col("signal")[i] = 0

\* C10 as amended: the same for window_size >= 2 and a min_periods, when one
\* is forwarded, not above window_size.
C10_ConstantInputWindowed ==
    (Calculated("bb") /\ Constant(call.values)
        /\ Len(call.values) >= obj.rolling_kwargs["window"]
        /\ obj.rolling_kwargs["window"] >= 2
        /\ ~RollingRaises(obj.rolling_kwargs)) =>
        /\ ret.kind = "return"
        /\ \A i \in Rows : i >= obj.rolling_kwargs["window"] => Collapsed(i)
        /\ \A i \in Rows : Col("signal")[i] = 0

C10_Witness ==
    /\ Calculated("bb")
    /\ ret.kind = "return"
    /\ Constant(call.values)
    /\ call.values[1] = I(MaxValue)
    /\ obj.rolling_kwargs["window"] >= 2
    /\ Len(call.values) > obj.rolling_kwargs["window"]

NoMissing(values) == \A j \in 1..Len(values) : ~IsNaN(values[j])

\* the sum of s[lo..hi]
RECURSIVE Total(_, _, _)
Total(s, lo, hi) == IF lo > hi THEN I(0) ELSE FAdd(s[hi], Total(s, lo, hi - 1))

\* the sum of the squared deviations of s[lo..hi] from mean
RECURSIVE Scatter(_, _, _, _)
Scatter(s, lo, hi, mean) ==
    IF lo > hi THEN I(0)
    ELSE FAdd(FMul(FSub(s[hi], mean), FSub(s[hi], mean)), Scatter(s, lo, hi - 1, mean))

\* the square of a rational or of a rational multiple of a square root
Squared(x) == Rational(RAdd(RMul(x.a, x.a), RMul(RMul(x.b, x.b), x.r)), 0)

\* x is the arithmetic mean of s[lo..hi]
IsMeanOf(x, s, lo, hi) ==
    x.k = "num" /\ FEq(FMul(x, I(hi - lo + 1)), Total(s, lo, hi))

\* x is the sample standard deviation (divisor n - 1) of s[lo..hi], which is
\* undefined for a single value
IsSampleStdOf(x, s, lo, hi, mean) ==
    IF hi = lo THEN IsNaN(x)
    ELSE /\ x.k = "num"
         /\ Sign(x) >= 0
         /\ (x.a = RZero \/ x.b = RZero)
         /\ FEq(FMul(Squared(x), I(hi - lo)), Scatter(s, lo, hi, mean))

\* C11: for an input without missing entries and default windowing options
\* ma and sd are missing before the first full window, and from there on ma
\* is the arithmetic mean and sd the sample standard deviation of the
\* window_size most recent values; with min_periods = m < window_size ma is
\* defined (the mean of the values in the window) from the m-th row on and
\* missing before.
C11_RollingMeanAndStd ==
    (Calculated("bb") /\ NoMissing(call.values)) =>
        LET kw == obj.rolling_kwargs
            w  == kw["window"]
        IN  IF "min_periods" \notin DOMAIN kw
            THEN /\ ret.kind = "return"
                 /\ \A i \in Rows :
                       IF i < w
                       THEN IsNaN(Col("ma")[i]) /\ IsNaN(Col("sd")[i])
                       ELSE /\ IsMeanOf(Col("ma")[i], call.values, i - w + 1, i)
                            /\ IsSampleStdOf(Col("sd")[i], call.values, i - w + 1, i,
                                             Col("ma")[i])
            ELSE kw["min_periods"] < w =>
                 /\ ret.kind = "return"
                 /\ \A i \in Rows :
                       IF i < kw["min_periods"]
                       THEN IsNaN(Col("ma")[i])
                       ELSE IsMeanOf(Col("ma")[i], call.values, Max(1, i - w + 1), i)

C11_Witness ==
    /\ Calculated("bb")
    /\ ret.kind = "return"
    /\ NoMissing(call.values)
    /\ "min_periods" \notin DOMAIN obj.rolling_kwargs
    /\ obj.rolling_kwargs["window"] >= 2
    /\ Len(call.values) > obj.rolling_kwargs["window"]
    /\ \E i \in Rows : ~IsNaN(Col("sd")[i]) /\ Sign(Col("sd")[i]) > 0 /\ Col("sd")[i].b # RZero
    /\ IsNaN(Col("ma")[1])

\* C12 as stated: for a single-value input the one row has value equal to the
\* input and every other column (ma, sd, lower_bb, upper_bb, signal) missing.
C12_SingleValueAllMissing ==
    (Calculated("bb") /\ Len(call.values) = 1) =>
        /\ ret.kind = "return"
        /\ Col("value")[1] = call.values[1]
        /\ IsNaN(Col("ma")[1])
        /\ IsNaN(Col("sd")[1])
        /\ IsNaN(Col("lower_bb")[1])
        /\ IsNaN(Col("upper_bb")[1])
        /\ Col("signal")[1] \notin Int

\* C12 as amended: for a single-value input (and no min_periods above
\* window_size) value equals the input, sd and both bands are missing, signal
\* is 0, and ma is missing unless one observation fills the window
\* (window_size = 1 or min_periods = 1), where ma equals the value.
C12_SingleValueRow ==
    (Calculated("bb") /\ Len(call.values) = 1
        /\ ("min_periods" \in DOMAIN obj.rolling_kwargs
               => obj.rolling_kwargs["min_periods"] <= obj.rolling_kwargs["window"])) =>
        /\ ret.kind = "return"
        /\ Col("value")[1] = call.values[1]
        /\ Col("ma")[1] =
              (IF "min_periods" \in DOMAIN obj.rolling_kwargs
               THEN IF obj.rolling_kwargs["min_periods"] = 1 THEN call.values[1] ELSE NaN
               ELSE IF obj.rolling_kwargs["window"] = 1 THEN call.values[1] ELSE NaN)
        /\ IsNaN(Col("sd")[1])
        /\ IsNaN(Col("lower_bb")[1])
        /\ IsNaN(Col("upper_bb")[1])
        /\ Col("signal")[1] = 0

C12_Witness ==
    /\ Calculated("bb")
    /\ ret.kind = "return"
    /\ call.values = <<I(1)>>
    /\ obj.rolling_kwargs = ("window" :> 1)
    /\ Col("ma")[1] = I(1)
    /\ IsNaN(Col("sd")[1])
    /\ Col("signal")[1] = 0

\* the last non-missing value at or before position i, missing if there is none
RECURSIVE Carried(_, _)
Carried(values, i) ==
    IF ~IsNaN(values[i]) THEN values[i]
    ELSE IF i = 1 THEN NaN
    ELSE Carried(values, i - 1)

ForwardFilled(values) == [i \in 1..Len(values) |-> Carried(values, i)]

\* ema[1] = s[1], ema[i] = a*s[i] + (1 - a)*ema[i-1] with a = 2/(span + 1)
RECURSIVE Ema(_, _, _)
Ema(s, i, span) ==
    IF i = 1 THEN s[1]
    ELSE FAdd(FMul(s[i], Q(2, span + 1)), FMul(Ema(s, i - 1, span), Q(span - 1, span + 1)))

RecursiveEmas ==
    \A i \in Rows :
        /\ FEq(Col("macd")[i],
               FSub(Ema(ForwardFilled(call.values), i, obj.fast_ema_span),
                    Ema(ForwardFilled(call.values), i, obj.slow_ema_span)))
        /\ FEq(Col("macd_ema")[i], Ema(Col("macd"), i, obj.macd_ema_span))

\* C13 as stated: in every table MacdCalculator returns, macd is the
\* difference of the recursive (non-adjusted) EMAs of the forward-filled
\* series with the fast and the slow span, and macd_ema the recursive EMA of
\* macd with macd_ema_span.
C13_RecursiveEma ==
    (Calculated("macd") /\ ret.kind = "return") => RecursiveEmas

\* C13 as amended: the same unless adjust=True is forwarded, which overrides
\* the non-adjusted default.
C13_RecursiveEmaByDefault ==
    (Calculated("macd") /\ ret.kind = "return" /\ ~obj.ewm_kwargs["adjust"])
        => RecursiveEmas

C13_Witness ==
    /\ Calculated("macd")
    /\ ret.kind = "return"
    /\ ~obj.ewm_kwargs["adjust"]
    /\ obj.fast_ema_span > 1
    /\ Len(call.values) >= 3
    /\ \E i \in Rows : IsNaN(call.values[i])
    /\ \E i \in Rows : Sign(Col("macd")[i]) # 0 /\ ~FEq(Col("macd")[i], Col("macd_ema")[i])

\* C14: for every input whose first value is present (a single-value input
\* included) MacdCalculator.calculate returns a table whose first row has
\* macd = 0, macd_ema = 0 and signal = 0.
C14_NoWarmUpGap ==
    (Calculated("macd") /\ Len(call.values) >= 1 /\ ~IsNaN(call.values[1])) =>
        /\ ret.kind = "return"
        /\ Col("macd")[1] = I(0)
        /\ Col("macd_ema")[1] = I(0)
        /\ Col("signal")[1] = 0

\* C15: every rsi value RsiCalculator.calculate returns is missing or a
\* number in the closed interval [0, 100].
C15_RsiRange ==
    (Calculated("rsi") /\ ret.kind = "return") =>
        \A i \in Rows :
            ~IsNaN(Col("rsi")[i]) =>
                /\ Col("rsi")[i].k = "num"
                /\ Sign(Col("rsi")[i]) >= 0
                /\ Sign(FSub(I(100), Col("rsi")[i])) >= 0

C15_Witness ==
    /\ Calculated("rsi")
    /\ ret.kind = "return"
    /\ \E i \in Rows : Col("rsi")[i] = I(100) /\ Col("rs")[i] = NegInf
    /\ \E i \in Rows : FGt(Col("rsi")[i], I(0)) /\ FLt(Col("rsi")[i], I(100))

\* C16: the RSI signal is 1 exactly when rsi is defined and above upper_line,
\* -1 exactly when rsi is defined, not above upper_line and below lower_line,
\* and 0 otherwise (rsi missing or on a line included).
C16_SignalThresholds ==
    (Calculated("rsi") /\ ret.kind = "return") =>
        \A i \in Rows :
            Col("signal")[i] =
                IF IsNaN(Col("rsi")[i]) THEN 0
                ELSE IF Sign(FSub(Col("rsi")[i], I(obj.upper_line))) > 0 THEN 1
                ELSE IF Sign(FSub(Col("rsi")[i], I(obj.lower_line))) < 0 THEN -1
                ELSE 0

C16_Witness ==
    /\ Calculated("rsi")
    /\ ret.kind = "return"
    /\ \E i \in Rows : Col("rsi")[i] = I(obj.upper_line) /\ Col("signal")[i] = 0
    /\ \E i \in Rows : Col("signal")[i] = 1
    /\ \E i \in Rows : IsNaN(Col("rsi")[i]) /\ Col("signal")[i] = 0

StrictlyIncreasing(values) ==
    \A i \in 1..(Len(values) - 1) : FLt(values[i], values[i + 1])

StrictlyDecreasing(values) ==
    \A i \in 1..(Len(values) - 1) : FGt(values[i], values[i + 1])

\* C17: for a strictly increasing input longer than window_size (and a
\* windowing configuration rolling accepts) the last row has an infinite rs,
\* rsi = 100 and signal 1 for every upper_line below 100; for a strictly
\* decreasing one it has rs = 0, rsi = 0 and signal -1 for every lower_line
\* above 0.
C17_TrendSaturates ==
    (Calculated("rsi") /\ Len(call.values) > obj.rolling_kwargs["window"]
        /\ ~RollingRaises(obj.rolling_kwargs)) =>
        /\ StrictlyIncreasing(call.values) =>
              /\ ret.kind = "return"
              /\ Col("rs")[Len(call.values)] \in {PosInf, NegInf}
              /\ Col("rsi")[Len(call.values)] = I(100)
              /\ obj.upper_line < 100 => Col("signal")[Len(call.values)] = 1
        /\ StrictlyDecreasing(call.values) =>
              /\ ret.kind = "return"
              /\ Col("rs")[Len(call.values)] = I(0)
              /\ Col("rsi")[Len(call.values)] = I(0)
              /\ (obj.lower_line > 0 /\ obj.upper_line >= 0)
                    => Col("signal")[Len(call.values)] = -1

C17_Witness ==
    /\ Calculated("rsi")
    /\ ret.kind = "return"
    /\ call.values = UptrendScenario
    /\ obj.rolling_kwargs = ("window" :> 3)
    /\ obj.upper_line = 70
    /\ obj.lower_line = 30
    /\ Col("rs")[4] = NegInf
    /\ Col("rsi")[4] = I(100)
    /\ Col("signal")[4] = 1
    /\ IsNaN(Col("rsi")[3])

\* max(x, 0) of a number
Positive(x) == IF Sign(x) > 0 THEN x ELSE I(0)

\* the sum of the upward moves max(s[j] - s[j-1], 0) for j in lo..hi
RECURSIVE Gains(_, _, _)
Gains(s, lo, hi) ==
    IF lo > hi THEN I(0)
    ELSE FAdd(Positive(FSub(s[hi], s[hi - 1])), Gains(s, lo, hi - 1))

\* the sum of the downward moves max(s[j-1] - s[j], 0) for j in lo..hi
RECURSIVE Losses(_, _, _)
Losses(s, lo, hi) ==
    IF lo > hi THEN I(0)
    ELSE FAdd(Positive(FSub(s[hi - 1], s[hi])), Losses(s, lo, hi - 1))

\* the window of w first differences ending at row i exists
FullyWindowed(s, i, w) == i - w >= 1 /\ \A j \in (i - w)..i : ~IsNaN(s[j])

\* rs is gains / losses, the means over the same w differences
IsStrength(rs, gains, losses) ==
    IF Sign(losses) = 0
    THEN IF Sign(gains) = 0 THEN IsNaN(rs) ELSE rs \in {PosInf, NegInf}
    ELSE rs.k = "num" /\ FEq(FMul(rs, losses), gains)

\* rsi = 100 - 100/(1 + rs), 100 for an infinite rs
IsIndexOf(rsi, rs) ==
    IF IsNaN(rs) THEN IsNaN(rsi)
    ELSE IF rs.k # "num" THEN rsi = I(100)
    ELSE rsi.k = "num" /\ FEq(FMul(rsi, FAdd(I(1), rs)), FMul(I(100), rs))

\* C18: at every fully-windowed row rs is the mean upward move over the mean
\* downward move of the window of first differences of the forward-filled
\* series, everywhere rsi = 100 - 100/(1 + rs), and for [100,102,101,103]
\* with window 3 the last row has rs = 4 and rsi = 80.
C18_RelativeStrength ==
    (Calculated("rsi") /\ ret.kind = "return") =>
        /\ \A i \in Rows :
              /\ FullyWindowed(ForwardFilled(call.values), i, obj.rolling_kwargs["window"]) =>
                    IsStrength(Col("rs")[i],
                               Gains(ForwardFilled(call.values),
                                     i - obj.rolling_kwargs["window"] + 1, i),
                               Losses(ForwardFilled(call.values),
                                      i - obj.rolling_kwargs["window"] + 1, i))
              /\ IsIndexOf(Col("rsi")[i], Col("rs")[i])
        /\ (call.values = RsiScenario /\ obj.rolling_kwargs["window"] = 3) =>
              /\ Col("rs")[4] = I(4)
              /\ Col("rsi")[4] = I(80)

C18_Witness ==
    /\ Calculated("rsi")
    /\ ret.kind = "return"
    /\ call.values = RsiScenario
    /\ obj.rolling_kwargs = ("window" :> 3)
    /\ Col("rs")[4] = I(4)
    /\ Col("rsi")[4] = I(80)
    /\ IsNaN(Col("rs")[3])

\* C19: for a constant input (and a windowing configuration rolling accepts)
\* rs and rsi are missing and signal is 0 at every row; for a single-value
\* input rs and rsi are missing and signal is 0.
C19_FlatSeries ==
    (Calculated("rsi") /\ ~RollingRaises(obj.rolling_kwargs)
        /\ (Constant(call.values) \/ Len(call.values) = 1)) =>
        /\ ret.kind = "return"
        /\ \A i \in Rows :
              /\ IsNaN(Col("rs")[i])
              /\ IsNaN(Col("rsi")[i])
              /\ Col("signal")[i] = 0

C19_Witness ==
    /\ Calculated("rsi")
    /\ ret.kind = "return"
    /\ call.values = <<I(1), I(1), I(1)>>
    /\ obj.rolling_kwargs = ("window" :> 2)
    /\ IsNaN(Col("rsi")[3])
    /\ Col("signal")[3] = 0
    /\ obj.lower_line > 0

\* the derived columns of a returned table
Derived(outcome) == [c \in (DOMAIN outcome.value.data) \ {"value"} |-> outcome.value.data[c]]

\* two outcomes of calculate agree on everything but the value column
SameDerived(a, b) ==
    /\ a.kind = b.kind
    /\ a.kind = "return" => Derived(a) = Derived(b)

\* what calculate gives for the sequence in which every missing entry has
\* been replaced by the last present one before it
OutcomesOfFilled ==
    IF obj.class = "macd" THEN {MacdCalculate(obj, ForwardFilled(call.values))}
    ELSE IF obj.class = "bb" THEN {BbCalculate(obj, ForwardFilled(call.values))}
    ELSE {RsiCalculate(obj, ForwardFilled(call.values), z) : z \in ZeroSigns(obj)}

HasPresentBefore(values, i) == \E j \in 1..(i - 1) : ~IsNaN(values[j])

WindowPresent(s, i, w) == i - w + 1 >= 1 /\ \A j \in (i - w + 1)..i : ~IsNaN(s[j])

\* C20: the derived columns are those of the forward-filled sequence (a
\* missing entry takes the last present value before it, leading missing
\* entries stay missing): the outcome of calculate is, but for the value
\* column, its outcome on the filled sequence; the RSI first difference at a
\* missing entry that follows a present one is 0; with the default
\* min_periods the Bollinger mean is the mean of the filled window wherever
\* that window holds no leading missing entry and missing elsewhere; and the
\* MACD line is missing exactly at the leading missing entries.
C20_ForwardFilledWorkingSeries ==
    call.op = "calculate" =>
        LET filled == ForwardFilled(call.values)
        IN  /\ \E o \in OutcomesOfFilled : SameDerived(ret, o)
            /\ Calculated("rsi") =>
                  \A i \in Rows :
                     (IsNaN(call.values[i]) /\ HasPresentBefore(call.values, i)) =>
                        RsiDiff(NewFrame(call.values)).data["ff_diff"][i] = I(0)
            /\ (Calculated("bb") /\ ret.kind = "return"
                    /\ "min_periods" \notin DOMAIN obj.rolling_kwargs) =>
                  \A i \in Rows :
                     IF WindowPresent(filled, i, obj.rolling_kwargs["window"])
                     THEN IsMeanOf(Col("ma")[i], filled,
                                   i - obj.rolling_kwargs["window"] + 1, i)
                     ELSE IsNaN(Col("ma")[i])
            /\ (Calculated("macd") /\ ret.kind = "return") =>
                  \A i \in Rows : IsNaN(Col("macd")[i]) <=> IsNaN(filled[i])

C20_Witness ==
    /\ Calculated("bb")
    /\ ret.kind = "return"
    /\ call.values = <<NaN, I(1), NaN>>
    /\ obj.rolling_kwargs = ("window" :> 2)
    /\ IsNaN(Col("ma")[2])
    /\ Col("ma")[3] = I(1)

\* the instance the constructor call made gives when it is made anew
Fresh(made) ==
    IF made.op = "MacdCalculator"
    THEN MacdInit(made.fast_ema_span, made.slow_ema_span, made.macd_ema_span,
                  made.kwargs).self
    ELSE IF made.op = "BollingerBandsCalculator"
    THEN BollingerBandsCalculator(made.window_size, made.sd_multiplier, made.kwargs)
    ELSE RsiCalculator(made.window_size, made.upper_line, made.lower_line, made.kwargs)

FirstCall(self, values, zero) ==
    IF self.class = "macd" THEN MacdCalculate(self, values)
    ELSE IF self.class = "bb" THEN BbCalculate(self, values)
    ELSE RsiCalculate(self, values, zero)

\* C21: whatever calls of calculate were made on the instance before, and
\* whatever calls are in flight, the instance is the one its constructor
\* made, and a call that returns gives the outcome of the first call on a
\* freshly constructed instance with the same parameters.
C21_NoCarryOver ==
    call.op = "calculate" =>
        /\ obj = Fresh(call.made)
        /\ obj = call.made.self
        /\ call.returned => ret = FirstCall(Fresh(call.made), call.values, call.zero)

C21_Witness ==
    /\ call.op = "calculate"
    /\ call.returned
    /\ obj.class = "rsi"
    /\ call.values = RsiScenario
    /\ call.pending = <<RsiScenario, <<NaN>>>>
    /\ ret.kind = "return"
    /\ ret.value.data["rsi"][4] = I(80)

Running(callee) == call.op = callee

\* the events ev of the run, in order
Events(ev) == SelectSeq(io.trace, LAMBDA e : e.ev = ev)

Fetched == Len(Events("DataReader")) = 1

FetchFailed == ret.kind = "raise" /\ ret.exc = "RemoteDataError"

\* C22: a run of calculate_indicator_for_remote_data with an indicator other
\* than 'macd', 'bb' and 'rsi' never gets past the check of the name: it
\* constructs no calculator and calls no calculate, and once the data is
\* fetched it ends with ValueError 'invalid indicator: <name>'.
C22_InvalidIndicator ==
    (Running("calculate_indicator_for_remote_data")
        /\ call.args["indicator"] \notin Recognized) =>
        /\ call.pc \in {"load", "indicator", "raised"}
        /\ obj = NoObj
        /\ Events("construct") = << >>
        /\ Events("calculate") = << >>
        /\ (call.pc = "raised" /\ ~FetchFailed) =>
              ret = Raised("ValueError", <<"invalid indicator: ", call.args["indicator"]>>)

C22_Witness ==
    /\ Running("calculate_indicator_for_remote_data")
    /\ call.args["indicator"] = "invalid"
    /\ call.pc = "raised"
    /\ Fetched
    /\ ret = Raised("ValueError", <<"invalid indicator: ", "invalid">>)
    /\ obj = NoObj

\* the instance the matching constructor makes from the parameter strings
Matching(indicator, args) ==
    IF indicator = "macd"
    THEN MacdInit(Ints[args["fast_ema_span"]], Ints[args["slow_ema_span"]],
                  Ints[args["macd_ema_span"]], << >>).self
    ELSE IF indicator = "bb"
    THEN BollingerBandsCalculator(Ints[args["window_size"]], Ints[args["sd_multiplier"]], << >>)
    ELSE RsiCalculator(Ints[args["window_size"]], Ints[args["upper_line"]],
                       Ints[args["lower_line"]], << >>)

\* C23: in a run of calculate_indicator_for_remote_data with a recognized
\* indicator, the only constructor called is the matching one, at most once,
\* with the integers of exactly that indicator's parameter strings; calculate
\* is called at most once, on the first column of the fetched data; and a run
\* that reaches its end has called each exactly once, on the matching
\* instance.
C23_OneMatchingCalculator ==
    (Running("calculate_indicator_for_remote_data")
        /\ call.args["indicator"] \in Recognized) =>
        LET made  == Events("construct")
            calcs == Events("calculate")
            keys  == Range(ParamKeys(call.args["indicator"]))
        IN  /\ Len(made) <= 1
            /\ Len(calcs) <= 1
            /\ Len(made) = 1 =>
                  /\ made[1].arg.class = call.args["indicator"]
                  /\ DOMAIN made[1].arg.params = keys
                  /\ \A k \in keys : made[1].arg.params[k] = Ints[call.args[k]]
            /\ obj # NoObj => Len(made) = 1 /\ obj = Matching(call.args["indicator"], call.args)
            /\ Len(calcs) = 1 =>
                  /\ obj # NoObj
                  /\ calcs[1].arg = call.df_hist.data[call.df_hist.cols[1]]
            /\ call.pc \in {"calculate", "print", "write", "done"} => obj # NoObj
            /\ call.pc \in {"print", "write", "done"} => Len(calcs) = 1

C23_Witness ==
    /\ Running("calculate_indicator_for_remote_data")
    /\ call.pc = "done"
    /\ call.args["indicator"] = "bb"
    /\ call.args["window_size"] = "2"
    /\ call.args["sd_multiplier"] = "1"
    /\ Len(call.df_hist.cols) = 2
    /\ Events("construct") =
          <<Event("construct", [class |-> "bb",
                                params |-> [window_size |-> 2, sd_multiplier |-> 1]])>>
    /\ Events("calculate") = <<Event("calculate", <<I(1), NaN>>)>>

\* the fields of column j of the lines after the header
FieldsOf(lines, j) == [i \in 1..(Len(lines) - 1) |-> lines[i + 1][j]]

\* a column as read_csv infers it: integers if every field is one, else
\* floats with the empty fields missing
ParsedColumn(fields) ==
    IF \A i \in 1..Len(fields) : fields[i].text = "int"
    THEN [i \in 1..Len(fields) |-> fields[i].repr]
    ELSE [i \in 1..Len(fields) |->
            IF fields[i].text = "empty" THEN NaN
            ELSE IF fields[i].text = "int" THEN I(fields[i].repr)
            ELSE fields[i].repr]

\* pd.read_csv(csv_path, index_col=0): the first line names the columns, the
\* first field of every other line is the index label
ReadCsv(lines) ==
    LET names == [j \in 1..(Len(lines[1]) - 1) |-> lines[1][j + 1].repr]
    IN  DataFrame(ParsedColumn(FieldsOf(lines, 1)), names,
                  [c \in Range(names) |->
                      ParsedColumn(FieldsOf(lines, 1 + CHOOSE j \in 1..Len(names) : names[j] = c))])

\* the table the running function writes
Written == IF Running("fetch_remote_data") THEN call.df_hist ELSE call.df_indicator

Collaborations ==
    SelectSeq(io.trace, LAMBDA e : e.ev \in {"fetch_remote_data",
                                             "calculate_indicator_for_remote_data"})

\* the option of the command line each keyword argument is taken from
OptionOf(command) ==
    [data_source |-> "--data-source", api_key |-> "--api-key", start_date |-> "--start",
     end_date |-> "--end", max_rows |-> "--max-rows", drop_na |-> "--drop-na",
     output_csv_path |-> "--output-csv"]
    @@ (IF command = "macd"
        THEN [fast_ema_span |-> "--fast-ema-span", slow_ema_span |-> "--slow-ema-span",
              macd_ema_span |-> "--macd-ema-span"]
        ELSE IF command = "bb"
        THEN [window_size |-> "--bb-window", sd_multiplier |-> "--sd-multiplier"]
        ELSE IF command = "rsi"
        THEN [window_size |-> "--rsi-window", upper_line |-> "--upper-rsi",
              lower_line |-> "--lower-rsi"]
        ELSE << >>)

CommandOf(args) ==
    IF args["history"] THEN "history"
    ELSE IF args["macd"] THEN "macd"
    ELSE IF args["bb"] THEN "bb"
    ELSE IF args["rsi"] THEN "rsi"
    ELSE "none"

\* C25: in a run of main at most one collaborator is called, at most once:
\* none without a command; for history fetch_remote_data with the whole list
\* of names; for macd, bb and rsi calculate_indicator_for_remote_data with
\* that indicator, the first name, and besides the common options only the
\* options of that indicator, each the string of the command line.
C25_OneCollaborator ==
    (call # NoCall /\ call.caller # NoCall) =>
        LET args    == call.caller.args
            command == CommandOf(args)
            made    == Collaborations
            option  == OptionOf(command)
        IN  IF command = "none" THEN made = << >> /\ call.op = "main" /\ io.trace = << >>
            ELSE /\ Len(made) = 1
                 /\ made[1].ev = call.op
                 /\ made[1].ev = IF command = "history" THEN "fetch_remote_data"
                                 ELSE "calculate_indicator_for_remote_data"
                 /\ DOMAIN made[1].arg =
                       DOMAIN option \cup {"name"}
                       \cup (IF command = "history" THEN {} ELSE {"indicator"})
                 /\ \A k \in DOMAIN option : made[1].arg[k] = args[option[k]]
                 /\ IF command = "history"
                    THEN made[1].arg["name"] = args["<name>"]
                    ELSE /\ made[1].arg["indicator"] = command
                         /\ made[1].arg["name"] = args["<name>"][1]

C25_Witness ==
    /\ call # NoCall
    /\ call.caller # NoCall
    /\ call.caller.args["bb"]
    /\ call.caller.args["<name>"] = <<"SPY", "QQQ">>
    /\ call.caller.args["--bb-window"] = "x"
    /\ call.op = "calculate_indicator_for_remote_data"
    /\ call.pc = "raised"
    /\ Len(Collaborations) = 1
    /\ Collaborations[1].arg["name"] = "SPY"
    /\ Collaborations[1].arg["window_size"] = "x"
    /\ "fast_ema_span" \notin DOMAIN Collaborations[1].arg

\* what the run did to the world so far, in order
Steps ==
    LET done == SelectSeq(io.trace, LAMBDA e : e.ev \notin {"fetch_remote_data",
                                                           "calculate_indicator_for_remote_data"})
    IN  [i \in 1..Len(done) |-> done[i].ev]

\* the steps of a whole run with these arguments
AllSteps(args) ==
    <<"DataReader">>
    \o (IF args["drop_na"] THEN <<"dropna">> ELSE << >>)
    \o <<"construct", "calculate", "print">>
    \o (IF Truthy(args["output_csv_path"]) THEN <<"to_csv">> ELSE << >>)

IsPrefix(s, t) == Len(s) <= Len(t) /\ \A i \in 1..Len(s) : s[i] = t[i]

InvalidIndicatorReported ==
    call.pc = "raised" /\ ~FetchFailed /\ call.args["indicator"] \notin Recognized

InvalidSpansReported ==
    /\ call.pc = "raised"
    /\ call.args["indicator"] = "macd"
    /\ Len(Events("construct")) = 1
    /\ obj = NoObj

\* C27: what a run of calculate_indicator_for_remote_data has done is always
\* a prefix of: remote fetch, drop of the rows with missing values (if
\* asked), construction, calculate, print of the result, CSV write (if
\* asked); the indicator is checked after the fetch and before the
\* construction; a run that ends has done all of it; and when an
\* unrecognized indicator or fast >= slow is reported, the fetch has been
\* made, nothing was printed and no file was written or changed.
C27_StepOrder ==
    Running("calculate_indicator_for_remote_data") =>
        /\ IsPrefix(Steps, AllSteps(call.args))
        /\ call.pc = "done" => Steps = AllSteps(call.args)
        /\ call.pc = "indicator" =>
              Fetched /\ Events("construct") = << >>
        /\ Len(Events("construct")) = 1 => call.args["indicator"] \in Recognized
        /\ call.pc = "raised" =>
              /\ Events("print") = << >>
              /\ Events("to_csv") = << >>
        /\ InvalidSpansReported => ret = Raised("ValueError", InvalidSpans)
        /\ (InvalidIndicatorReported \/ InvalidSpansReported) =>
              /\ Fetched
              /\ Steps[1] = "DataReader"
              /\ \A f \in DOMAIN io.files : io.files[f][1][2] = Field("str", "OLD")

C27_Witness ==
    /\ Running("calculate_indicator_for_remote_data")
    /\ InvalidSpansReported
    /\ call.args["fast_ema_span"] = "2"
    /\ call.args["slow_ema_span"] = "1"
    /\ call.args["drop_na"]
    /\ call.args["output_csv_path"] = "output.csv"
    /\ Steps = <<"DataReader", "dropna", "construct">>
    /\ ret = Raised("ValueError", InvalidSpans)
    /\ Resolve("output.csv") \notin DOMAIN io.files

\* the options as the constructor stores them beside its own entry
StoredOptions(kwargs, stored, own) ==
    /\ DOMAIN stored = DOMAIN kwargs \cup {own}
    /\ \A k \in DOMAIN kwargs : k # own => stored[k] = kwargs[k]

\* C26: BollingerBandsCalculator and RsiCalculator are constructed for all
\* parameter values (a window of zero or below, upper_line below lower_line
\* included), MacdCalculator for all with fast_ema_span < slow_ema_span
\* whatever macd_ema_span and the signs of the spans are, and it raises
\* otherwise; the instance holds the parameters and options as given.
C26_OnlySpansValidated ==
    /\ call.op = "BollingerBandsCalculator" =>
          /\ ret = Returned(obj)
          /\ obj.class = "bb"
          /\ obj.sd_multiplier = call.sd_multiplier
          /\ obj.rolling_kwargs["window"] = call.window_size
          /\ StoredOptions(call.kwargs, obj.rolling_kwargs, "window")
    /\ call.op = "RsiCalculator" =>
          /\ ret = Returned(obj)
          /\ obj.class = "rsi"
          /\ obj.upper_line = call.upper_line
          /\ obj.lower_line = call.lower_line
          /\ obj.rolling_kwargs["window"] = call.window_size
          /\ StoredOptions(call.kwargs, obj.rolling_kwargs, "window")
    /\ call.op = "MacdCalculator" =>
          IF call.fast_ema_span >= call.slow_ema_span
          THEN ret = Raised("ValueError", InvalidSpans) /\ obj = NoObj
          ELSE /\ ret = Returned(obj)
               /\ obj.class = "macd"
               /\ obj.fast_ema_span = call.fast_ema_span
               /\ obj.slow_ema_span = call.slow_ema_span
               /\ obj.macd_ema_span = call.macd_ema_span
               /\ obj.ewm_kwargs["adjust"] =
                     (IF "adjust" \in DOMAIN call.kwargs THEN call.kwargs["adjust"] ELSE FALSE)
               /\ StoredOptions(call.kwargs, obj.ewm_kwargs, "adjust")

C26_Witness ==
    /\ call.op = "RsiCalculator"
    /\ call.window_size = 0
    /\ call.upper_line < call.lower_line
    /\ call.lower_line < 0
    /\ ret = Returned(obj)
    /\ obj.rolling_kwargs = ("window" :> 0)
    /\ obj.upper_line = call.upper_line

DefaultWindowing(self) == DOMAIN self.rolling_kwargs = {"window"}

\* C28: with a window of w >= 2 values and the default windowing options,
\* BollingerBandsCalculator returns for every input, and every signal s has
\* s * s * w <= (w - 1) * (w - 1): 0 for w = 2, one of -1, 0, 1 for w = 3,
\* whatever the multiplier.
C28_SignalBound ==
    (Calculated("bb") /\ DefaultWindowing(obj) /\ obj.rolling_kwargs["window"] >= 2) =>
        LET w == obj.rolling_kwargs["window"]
        IN  /\ ret.kind = "return"
            /\ \A i \in Rows :
                  /\ Col("signal")[i] * Col("signal")[i] * w <= (w - 1) * (w - 1)
                  /\ w = 2 => Col("signal")[i] = 0
                  /\ w = 3 => Col("signal")[i] \in {-1, 0, 1}

C28_Witness ==
    /\ Calculated("bb")
    /\ DefaultWindowing(obj)
    /\ obj.rolling_kwargs["window"] = 3
    /\ obj.sd_multiplier = 2
    /\ call.values = JumpsScenario
    /\ ret.kind = "return"
    /\ Col("signal") = <<0, 0, 0, 1, 0>>

\* C29: with the default windowing options, a window of w and an input
\* without missing entries, RsiCalculator gives missing rs and rsi and
\* signal 0 at the first w rows, so at every row of an input of at most w
\* values; from row w + 1 on rs is missing only where the window holds no
\* move at all; BollingerBandsCalculator gives a missing ma at the first
\* w - 1 rows only, one row less.
C29_WarmUp ==
    /\ (Calculated("rsi") /\ DefaultWindowing(obj) /\ NoMissing(call.values)) =>
          LET w == obj.rolling_kwargs["window"]
          IN  /\ ret.kind = "return"
              /\ \A i \in Rows :
                    IF i <= w
                    THEN /\ IsNaN(Col("rs")[i])
                         /\ IsNaN(Col("rsi")[i])
                         /\ Col("signal")[i] = 0
                    ELSE /\ IsNaN(Col("rs")[i]) <=>
                               (Sign(Gains(call.values, i - w + 1, i)) = 0
                                   /\ Sign(Losses(call.values, i - w + 1, i)) = 0)
                         /\ IsNaN(Col("rsi")[i]) <=> IsNaN(Col("rs")[i])
              /\ Len(call.values) <= w =>
                    \A i \in Rows : IsNaN(Col("rsi")[i]) /\ Col("signal")[i] = 0
    /\ (Calculated("bb") /\ DefaultWindowing(obj) /\ NoMissing(call.values)) =>
          /\ ret.kind = "return"
          /\ \A i \in Rows : IsNaN(Col("ma")[i]) <=> i < obj.rolling_kwargs["window"]

C29_Witness ==
    /\ Calculated("rsi")
    /\ DefaultWindowing(obj)
    /\ obj.rolling_kwargs["window"] = 3
    /\ call.values = RsiScenario
    /\ ret.kind = "return"
    /\ \A i \in 1..3 : IsNaN(Col("rs")[i]) /\ IsNaN(Col("rsi")[i])
    /\ Col("rs")[4] = I(4)
    /\ BbCalculate(BollingerBandsCalculator(3, 2, << >>), RsiScenario).value.data["ma"][3]
          = I(101)

\* C30: with a window of one value and the default windowing options,
\* BollingerBandsCalculator returns for every input a table whose ma is the
\* forward-filled value (missing where that is missing), whose sd, lower_bb
\* and upper_bb are missing at every row and whose signal is 0 at every row.
C30_WindowOfOne ==
    (Calculated("bb") /\ DefaultWindowing(obj) /\ obj.rolling_kwargs["window"] = 1) =>
        /\ ret.kind = "return"
        /\ \A i \in Rows :
              /\ Col("ma")[i] = ForwardFilled(call.values)[i]
              /\ IsNaN(Col("sd")[i])
              /\ IsNaN(Col("lower_bb")[i])
              /\ IsNaN(Col("upper_bb")[i])
              /\ Col("signal")[i] = 0

C30_Witness ==
    /\ Calculated("bb")
    /\ DefaultWindowing(obj)
    /\ obj.rolling_kwargs["window"] = 1
    /\ call.values = <<NaN, I(1), NaN>>
    /\ ret.kind = "return"
    /\ Col("ma") = <<NaN, I(1), I(1)>>
    /\ IsNaN(Col("sd")[2])
    /\ Col("signal") = <<0, 0, 0>>

====
